---- MODULE Spec2Model ----
(***************************************************************************)
(* xsd-zod: the XSD parser (parseXsd and its helpers), the mappers and the *)
(* dependency sorts of the validator generator, as state machines over     *)
(* bounded families of documents.                                          *)
(*                                                                         *)
(* Strings are TLA+ strings; a character is a string of length 1.          *)
(* JavaScript `undefined` is the string Undefined for optional strings and *)
(* a missing record field for optional objects and lists.                  *)
(***************************************************************************)
EXTENDS Integers, Sequences, FiniteSets, TLC

VARIABLES
    doc,                \* the tree the XML tokenizer produced for the input text
    schema,             \* the XsdSchema returned by parseXsd (NoSchema before)
    naming,             \* the NamingConvention passed to the generators
    pc,                 \* position of the running call
    visited,            \* topologicalSort*: Set visited
    visiting,           \* topologicalSort*: Set visiting
    result,             \* topologicalSort*: result array
    stack,              \* call stack of visit(): frames [idx, deps, k, st]
    loopIdx,            \* index of the for..of loop that calls visit()
    warnings,           \* names passed to console.warn by the sorts
    sortedSimpleTypes,  \* generateValidators: sortedSimpleTypes
    sortedComplexTypes, \* generateValidators: sortedComplexTypes
    calls,              \* the calls made so far, each with its arguments and what it returned
    options,            \* compileXsd: the CompileOptions it was called with
    disk,               \* the file system: the input tree and the output directory
    xsdFiles,           \* compileXsd: the paths getXsdFiles returned
    fileIdx,            \* compileXsd: index of the for..of loop over xsdFiles
    pending,            \* compileXsd: the writeFile calls the current file still awaits
    error               \* what the promise of compileXsd was rejected with

\* the variables of compileXsd
compileVars == <<options, disk, xsdFiles, fileIdx, pending, error>>

vars == <<doc, schema, naming, pc, visited, visiting, result, stack, loopIdx,
          warnings, sortedSimpleTypes, sortedComplexTypes, calls, compileVars>>

-----------------------------------------------------------------------------
(* JavaScript values *)

Undefined == "<undefined>"

\* JavaScript truthiness of an optional string
Truthy(s) == s # Undefined /\ s # ""

Has(r, f) == f \in DOMAIN r

\* a JavaScript number: sign, integer part and the digits after the decimal
\* point (without trailing zeros); NaN; and an absent number
Num(n) == [k |-> "number", neg |-> n < 0, int |-> IF n < 0 THEN -n ELSE n, frac |-> ""]
Dec(neg, int, frac) ==
    [k |-> "number", neg |-> neg /\ ~(int = 0 /\ frac = ""), int |-> int, frac |-> frac]
NaN == [k |-> "NaN"]
NoNum == [k |-> "undefined"]
\* "unbounded" taken for a number: parseInt("unbounded")
CoercedOccurs == [k |-> "NaN"]
\* the sentinel of maxOccurs="unbounded"
UnboundedOccurs == [k |-> "unbounded"]

\* JavaScript truthiness of an optional number
TruthyNum(v) == v.k = "number" /\ ~(v.int = 0 /\ v.frac = "")

-----------------------------------------------------------------------------
(* Characters and strings *)

UpperAlphabet == "ABCDEFGHIJKLMNOPQRSTUVWXYZ"
LowerAlphabet == "abcdefghijklmnopqrstuvwxyz"
DigitAlphabet == "0123456789"

Ch(s, i) == SubSeq(s, i, i)

CharsOf(s) == {Ch(s, i) : i \in 1..Len(s)}

UpperChars == CharsOf(UpperAlphabet)
LowerChars == CharsOf(LowerAlphabet)
DigitChars == CharsOf(DigitAlphabet)
AlnumChars == UpperChars \cup LowerChars \cup DigitChars

\* String.prototype.indexOf(c) for a single character, 1-based, 0 when absent
IndexOfChar(s, c) ==
    IF \E i \in 1..Len(s) : Ch(s, i) = c
    THEN CHOOSE i \in 1..Len(s) : Ch(s, i) = c /\ \A j \in 1..(i - 1) : Ch(s, j) # c
    ELSE 0

ToUpperChar(c) == IF c \in LowerChars THEN Ch(UpperAlphabet, IndexOfChar(LowerAlphabet, c)) ELSE c
ToLowerChar(c) == IF c \in UpperChars THEN Ch(LowerAlphabet, IndexOfChar(UpperAlphabet, c)) ELSE c

RECURSIVE ToLower(_)
ToLower(s) == IF s = "" THEN "" ELSE ToLowerChar(Ch(s, 1)) \o ToLower(SubSeq(s, 2, Len(s)))

\* Array.prototype.join
RECURSIVE Join(_, _)
Join(parts, sep) ==
    IF Len(parts) = 0 THEN ""
    ELSE IF Len(parts) = 1 THEN parts[1]
    ELSE parts[1] \o sep \o Join(Tail(parts), sep)

\* const name = value; ... : the rest of the block is In, applied to the value
Let(value, In(_)) == In(value)

\* Array.prototype.map
MapSeq(F(_), s) == [i \in 1..Len(s) |-> F(s[i])]

\* Array.prototype.filter
RECURSIVE FilterSeq(_, _)
FilterSeq(P(_), s) ==
    IF Len(s) = 0 THEN <<>>
    ELSE IF P(s[1]) THEN <<s[1]>> \o FilterSeq(P, Tail(s))
    ELSE FilterSeq(P, Tail(s))

\* concatenation of a sequence of sequences
RECURSIVE Flatten(_)
Flatten(ss) == IF Len(ss) = 0 THEN <<>> ELSE ss[1] \o Flatten(Tail(ss))

-----------------------------------------------------------------------------
(* change-case (imported by generators/naming): split into words, then     *)
(* pascalCase, camelCase, kebabCase                                        *)

\* a word boundary lies between positions i and i+1
SplitBoundary(s, i) ==
    \/ Ch(s, i) \in (LowerChars \cup DigitChars) /\ Ch(s, i + 1) \in UpperChars
    \/ /\ Ch(s, i) \in UpperChars
       /\ Ch(s, i + 1) \in UpperChars
       /\ i + 2 <= Len(s)
       /\ Ch(s, i + 2) \in LowerChars

RECURSIVE SplitFrom(_, _, _, _)
SplitFrom(s, i, words, cur) ==
    IF i > Len(s) THEN (IF cur = "" THEN words ELSE Append(words, cur))
    ELSE IF Ch(s, i) \notin AlnumChars
         THEN SplitFrom(s, i + 1, IF cur = "" THEN words ELSE Append(words, cur), "")
    ELSE IF i < Len(s) /\ SplitBoundary(s, i)
         THEN SplitFrom(s, i + 1, Append(words, cur \o Ch(s, i)), "")
    ELSE SplitFrom(s, i + 1, words, cur \o Ch(s, i))

split(value) == SplitFrom(value, 1, <<>>, "")

pascalCaseTransform(word, index) ==
    LET char0 == Ch(word, 1)
        initial == IF index > 1 /\ char0 \in DigitChars THEN "_" \o char0 ELSE ToUpperChar(char0)
    IN  initial \o ToLower(SubSeq(word, 2, Len(word)))

pascalCase(input) ==
    Let(split(input), LAMBDA words :
        Join([i \in 1..Len(words) |-> pascalCaseTransform(words[i], i)], ""))

camelCase(input) ==
    Let(split(input), LAMBDA words :
        Join([i \in 1..Len(words) |->
                IF i = 1 THEN ToLower(words[i]) ELSE pascalCaseTransform(words[i], i)], ""))

kebabCase(input) ==
    Let(split(input), LAMBDA words : Join([i \in 1..Len(words) |-> ToLower(words[i])], "-"))

-----------------------------------------------------------------------------
(* generators/naming *)

NamingConventions == {"camel", "pascal", "original", "kebab"}

applyNaming(name, convention) ==
    CASE convention = "camel" -> camelCase(name)
      [] convention = "pascal" -> pascalCase(name)
      [] convention = "kebab" -> kebabCase(name)
      [] convention = "original" -> name

getTypeName(name, convention) ==
    CASE convention \in {"camel", "pascal", "kebab"} -> pascalCase(name)
      [] convention = "original" -> name

getSchemaName(name, convention) ==
    CASE convention \in {"camel", "pascal", "kebab"} -> pascalCase(name) \o "Schema"
      [] convention = "original" -> name \o "Schema"

-----------------------------------------------------------------------------
(* parser/namespace: stripNamespace *)

stripNamespace(typeName) ==
    IF ~Truthy(typeName) THEN ""
    ELSE LET colonIndex == IndexOfChar(typeName, ":")
         IN  IF colonIndex > 0 THEN SubSeq(typeName, colonIndex + 1, Len(typeName)) ELSE typeName

-----------------------------------------------------------------------------
(* mappers/primitive *)

PRIMITIVE_TYPE_MAP ==
       ("string" :> [tsType |-> "string", zodValidator |-> "z.string()"])
    @@ ("int" :> [tsType |-> "number", zodValidator |-> "z.number().int()"])
    @@ ("integer" :> [tsType |-> "number", zodValidator |-> "z.number().int()"])
    @@ ("decimal" :> [tsType |-> "number", zodValidator |-> "z.number()"])
    @@ ("float" :> [tsType |-> "number", zodValidator |-> "z.number()"])
    @@ ("double" :> [tsType |-> "number", zodValidator |-> "z.number()"])
    @@ ("boolean" :> [tsType |-> "boolean", zodValidator |-> "z.boolean()"])
    @@ ("date" :> [tsType |-> "string", zodValidator |-> "z.string().date()"])
    @@ ("dateTime" :> [tsType |-> "string", zodValidator |-> "z.string().datetime()"])
    @@ ("time" :> [tsType |-> "string", zodValidator |-> "z.string().time()"])
    @@ ("anyURI" :> [tsType |-> "string", zodValidator |-> "z.string().url()"])
    @@ ("base64Binary" :> [tsType |-> "string", zodValidator |-> "z.string()"])
    @@ ("hexBinary" :> [tsType |-> "string", zodValidator |-> "z.string()"])
    @@ ("duration" :> [tsType |-> "string", zodValidator |-> "z.string()"])
    @@ ("gDay" :> [tsType |-> "string", zodValidator |-> "z.string()"])
    @@ ("gMonth" :> [tsType |-> "string", zodValidator |-> "z.string()"])
    @@ ("gMonthDay" :> [tsType |-> "string", zodValidator |-> "z.string()"])
    @@ ("gYear" :> [tsType |-> "string", zodValidator |-> "z.string()"])
    @@ ("gYearMonth" :> [tsType |-> "string", zodValidator |-> "z.string()"])
    @@ ("ID" :> [tsType |-> "string", zodValidator |-> "z.string()"])
    @@ ("IDREF" :> [tsType |-> "string", zodValidator |-> "z.string()"])
    @@ ("ENTITY" :> [tsType |-> "string", zodValidator |-> "z.string()"])
    @@ ("NMTOKEN" :> [tsType |-> "string", zodValidator |-> "z.string()"])
    @@ ("normalizedString" :> [tsType |-> "string", zodValidator |-> "z.string()"])
    @@ ("token" :> [tsType |-> "string", zodValidator |-> "z.string()"])
    @@ ("language" :> [tsType |-> "string", zodValidator |-> "z.string()"])
    @@ ("Name" :> [tsType |-> "string", zodValidator |-> "z.string()"])
    @@ ("NCName" :> [tsType |-> "string", zodValidator |-> "z.string()"])
    @@ ("anyType" :> [tsType |-> "any", zodValidator |-> "z.any()"])
    @@ ("anySimpleType" :> [tsType |-> "any", zodValidator |-> "z.any()"])
    @@ ("positiveInteger" :> [tsType |-> "number", zodValidator |-> "z.number().int().positive()"])
    @@ ("nonNegativeInteger" :> [tsType |-> "number", zodValidator |-> "z.number().int().nonnegative()"])
    @@ ("negativeInteger" :> [tsType |-> "number", zodValidator |-> "z.number().int().negative()"])
    @@ ("nonPositiveInteger" :> [tsType |-> "number", zodValidator |-> "z.number().int().nonpositive()"])
    @@ ("long" :> [tsType |-> "number", zodValidator |-> "z.number().int()"])
    @@ ("short" :> [tsType |-> "number", zodValidator |-> "z.number().int()"])
    @@ ("byte" :> [tsType |-> "number", zodValidator |-> "z.number().int()"])
    @@ ("unsignedLong" :> [tsType |-> "number", zodValidator |-> "z.number().int().nonnegative()"])
    @@ ("unsignedInt" :> [tsType |-> "number", zodValidator |-> "z.number().int().nonnegative()"])
    @@ ("unsignedShort" :> [tsType |-> "number", zodValidator |-> "z.number().int().nonnegative()"])
    @@ ("unsignedByte" :> [tsType |-> "number", zodValidator |-> "z.number().int().nonnegative()"])
    @@ ("QName" :> [tsType |-> "string", zodValidator |-> "z.string()"])
    @@ ("NOTATION" :> [tsType |-> "string", zodValidator |-> "z.string()"])

AnyMapping == [tsType |-> "any", zodValidator |-> "z.any()"]

\* a mapper that hands out the entry of PRIMITIVE_TYPE_MAP itself: the []
\* that mapElement wrote into it during an earlier generation is still there
mapPrimitiveTypeShared(xsdType) ==
    Let(IF stripNamespace(xsdType) \in DOMAIN PRIMITIVE_TYPE_MAP
        THEN PRIMITIVE_TYPE_MAP[stripNamespace(xsdType)] ELSE AnyMapping,
        LAMBDA mapping :
            IF calls = <<>> THEN mapping
            ELSE [tsType |-> mapping.tsType \o "[]",
                  zodValidator |-> "z.array(" \o mapping.zodValidator \o ")"])

mapPrimitiveType(xsdType) ==
    Let(stripNamespace(xsdType), LAMBDA normalizedType :
        IF normalizedType \in DOMAIN PRIMITIVE_TYPE_MAP
        THEN PRIMITIVE_TYPE_MAP[normalizedType]
        ELSE AnyMapping)

\* String(n) for a non-negative integer
RECURSIVE NatToString(_)
NatToString(n) ==
    IF n < 10 THEN Ch(DigitAlphabet, n + 1)
    ELSE NatToString(n \div 10) \o Ch(DigitAlphabet, (n % 10) + 1)

\* template interpolation ${v} of an optional number
NumToString(v) ==
    CASE v.k = "number" -> (IF v.neg THEN "-" ELSE "") \o NatToString(v.int)
                           \o (IF v.frac = "" THEN "" ELSE "." \o v.frac)
      [] v.k = "NaN" -> "NaN"
      [] v.k = "undefined" -> "undefined"

\* pattern.replace(/\\/g, '\\\\')
RECURSIVE EscapeBackslashes(_)
EscapeBackslashes(s) ==
    IF s = "" THEN ""
    ELSE (IF Ch(s, 1) = "\\" THEN "\\\\" ELSE Ch(s, 1)) \o EscapeBackslashes(SubSeq(s, 2, Len(s)))

applyFacets(baseMapping, facets) ==
    LET \* if (present) zodValidator += call
        With(zodValidator, present, call) ==
            IF present THEN zodValidator \o call ELSE zodValidator
    IN  [tsType |-> IF TruthyNum(facets.totalDigits) \/ TruthyNum(facets.fractionDigits)
                    THEN "number" ELSE baseMapping.tsType,
         zodValidator |->
            With(With(With(With(With(With(With(With(baseMapping.zodValidator,
                TruthyNum(facets.minLength), ".min(" \o NumToString(facets.minLength) \o ")"),
                TruthyNum(facets.maxLength), ".max(" \o NumToString(facets.maxLength) \o ")"),
                TruthyNum(facets.length), ".length(" \o NumToString(facets.length) \o ")"),
                Truthy(facets.pattern), ".regex(/" \o EscapeBackslashes(facets.pattern) \o "/)"),
                facets.minInclusive # NoNum, ".min(" \o NumToString(facets.minInclusive) \o ")"),
                facets.maxInclusive # NoNum, ".max(" \o NumToString(facets.maxInclusive) \o ")"),
                facets.minExclusive # NoNum, ".gt(" \o NumToString(facets.minExclusive) \o ")"),
                facets.maxExclusive # NoNum, ".lt(" \o NumToString(facets.maxExclusive) \o ")")]

Quoted(v) == "'" \o v \o "'"

mapEnumeration(simpleType) ==
    Let(IF Has(simpleType.restriction, "enumerations")
        THEN simpleType.restriction.enumerations ELSE <<>>,
        LAMBDA values :
            [tsType |-> Join(MapSeq(Quoted, values), " | "),
             zodValidator |-> "z.enum([" \o Join(MapSeq(Quoted, values), ", ") \o "])"])

-----------------------------------------------------------------------------
(* mappers/complex *)

\* Array.prototype.find over the named entries of a list
FindByName(list, typeName) ==
    LET hits == {i \in 1..Len(list) : list[i].name = typeName}
    IN  IF hits = {} THEN 0 ELSE CHOOSE i \in hits : \A j \in hits : i <= j

\* returns [found |-> FALSE] for null
findCustomType(typeName, sch) ==
    IF FindByName(sch.complexTypes, typeName) > 0
    THEN [found |-> TRUE, name |-> sch.complexTypes[FindByName(sch.complexTypes, typeName)].name]
    ELSE IF FindByName(sch.simpleTypes, typeName) > 0
    THEN [found |-> TRUE, name |-> sch.simpleTypes[FindByName(sch.simpleTypes, typeName)].name]
    ELSE [found |-> FALSE]

InlineSimpleMapping(simpleType) ==
    IF Has(simpleType.restriction, "enumerations")
    THEN mapEnumeration(simpleType)
    ELSE applyFacets(mapPrimitiveType(simpleType.restriction.base), simpleType.restriction)

RECURSIVE mapComplexType(_, _, _)
RECURSIVE mapElement(_, _, _)

\* the mapping of a `type` attribute: a custom type's names, else a primitive
TypeReferenceMapping(typeName, nam, sch) ==
    Let(findCustomType(typeName, sch), LAMBDA customType :
        IF customType.found
        THEN [tsType |-> getTypeName(customType.name, nam),
              zodValidator |-> getSchemaName(customType.name, nam)]
        ELSE mapPrimitiveType(typeName))

\* an array test that knows only "unbounded"
IsUnboundedOccurs(maxOccurs) == maxOccurs = UnboundedOccurs

\* maxOccurs === "unbounded" || (typeof maxOccurs === "number" && maxOccurs > 1)
IsArrayOccurs(maxOccurs) ==
    \/ maxOccurs = UnboundedOccurs
    \/ /\ maxOccurs.k = "number"
       /\ ~maxOccurs.neg
       /\ \/ maxOccurs.int > 1
          \/ maxOccurs.int = 1 /\ maxOccurs.frac # ""

mapElement(element, nam, sch) ==
    Let(IF Has(element, "complexType")
        THEN Let(mapComplexType(element.complexType, nam, sch), LAMBDA complex :
                 [tsType |-> complex.typeName, zodValidator |-> complex.schemaName])
        ELSE IF Has(element, "simpleType")
        THEN InlineSimpleMapping(element.simpleType)
        ELSE IF Truthy(element.type)
        THEN TypeReferenceMapping(element.type, nam, sch)
        ELSE AnyMapping,
        LAMBDA typeMapping :
            [name |-> applyNaming(element.name, nam),
             tsType |-> IF IsArrayOccurs(element.maxOccurs) THEN typeMapping.tsType \o "[]"
                        ELSE typeMapping.tsType,
             zodValidator |-> IF IsArrayOccurs(element.maxOccurs)
                              THEN "z.array(" \o typeMapping.zodValidator \o ")"
                              ELSE typeMapping.zodValidator,
             optional |-> element.minOccurs = Num(0),
             isArray |-> IsArrayOccurs(element.maxOccurs)])

mapElements(elements, nam, sch) == MapSeq(LAMBDA el : mapElement(el, nam, sch), elements)

mapAttribute(attribute, nam, sch) ==
    Let(IF Has(attribute, "simpleType")
        THEN InlineSimpleMapping(attribute.simpleType)
        ELSE IF Truthy(attribute.type)
        THEN TypeReferenceMapping(attribute.type, nam, sch)
        ELSE [tsType |-> "string", zodValidator |-> "z.string()"],
        LAMBDA typeMapping :
            [name |-> applyNaming(attribute.name, nam),
             tsType |-> typeMapping.tsType,
             zodValidator |-> typeMapping.zodValidator,
             optional |-> attribute.use = Undefined \/ attribute.use = "optional"])

mapAttributes(attributes, nam, sch) ==
    MapSeq(LAMBDA attr : mapAttribute(attr, nam, sch), attributes)

TsField(f) == "  " \o f.name \o (IF f.optional THEN "?" ELSE "") \o ": " \o f.tsType
ZodField(f) == "  " \o f.name \o ": " \o f.zodValidator \o (IF f.optional THEN ".optional()" ELSE "")

mapComplexType(complexType, nam, sch) ==
    Let(MapSeq(LAMBDA e : [name |-> e.name, tsType |-> e.tsType,
                           zodValidator |-> e.zodValidator, optional |-> e.optional],
               mapElements(complexType.content, nam, sch))
        \o mapAttributes(complexType.attributes, nam, sch),
        LAMBDA allFields :
            [typeName |-> IF Truthy(complexType.name) THEN getTypeName(complexType.name, nam)
                          ELSE "AnonymousType",
             schemaName |-> IF Truthy(complexType.name)
                            THEN getSchemaName(complexType.name, nam)
                            ELSE "anonymousSchema",
             tsInterface |-> IF Len(allFields) > 0
                             THEN "{\n" \o Join(MapSeq(TsField, allFields), ",\n") \o "\n}"
                             ELSE "{}",
             zodObject |-> IF Len(allFields) > 0
                           THEN "z.object({\n" \o Join(MapSeq(ZodField, allFields), ",\n")
                                \o "\n})"
                           ELSE "z.object({})"])

-----------------------------------------------------------------------------
(* The tree of the XML tokenizer (fast-xml-parser): an element is a record  *)
(* of its attributes (strings) and its children; a child tag that occurs   *)
(* once is a node, one that repeats is an array, inline text is a text     *)
(* node.  "#keys" lists a node's keys in document order where the code     *)
(* iterates over them.                                                     *)

NoNode == [absent |-> TRUE]
EmptyObject == [isObject |-> TRUE]
Arr(items) == [isArray |-> TRUE, items |-> items]
TextNode(s) == [isText |-> TRUE, text |-> s]

IsArray(v) == Has(v, "isArray")
IsText(v) == Has(v, "isText")

\* !v for a value of the tree
Falsy(v) == v = NoNode \/ (IsText(v) /\ v.text = "")

\* node.key for an attribute
Attr(node, key) == IF Has(node, key) THEN node[key] ELSE Undefined

-----------------------------------------------------------------------------
(* parser/namespace *)

XSD_NAMESPACE_URI == "http://www.w3.org/2001/XMLSchema"

StartsWith(s, pre) == Len(s) >= Len(pre) /\ SubSeq(s, 1, Len(pre)) = pre
EndsWith(s, suf) == Len(s) >= Len(suf) /\ SubSeq(s, Len(s) - Len(suf) + 1, Len(s)) = suf

\* 1-based position of the first occurrence of sub in s, 0 when absent
IndexOf(s, sub) ==
    LET hits == {i \in 1..(Len(s) - Len(sub) + 1) : SubSeq(s, i, i + Len(sub) - 1) = sub}
    IN  IF hits = {} THEN 0 ELSE CHOOSE i \in hits : \A j \in hits : i <= j

Includes(s, sub) == IndexOf(s, sub) > 0

\* key.split(/\/?@_xmlns:?/)[1]
SplitXmlnsKey(key) ==
    Let(IndexOf(key, "@_xmlns"), LAMBDA at :
    Let(SubSeq(key, IF at + 7 <= Len(key) /\ Ch(key, at + 7) = ":" THEN at + 8 ELSE at + 7,
               Len(key)), LAMBDA rest :
    Let(IndexOf(rest, "@_xmlns"), LAMBDA nxt :
        IF at = 0 THEN Undefined
        ELSE SubSeq(rest, 1, IF nxt = 0 THEN Len(rest)
                             ELSE IF nxt > 1 /\ Ch(rest, nxt - 1) = "/" THEN nxt - 2
                             ELSE nxt - 1))))

IsXmlnsKey(key) ==
    \/ StartsWith(key, "xmlns:")
    \/ StartsWith(key, "@_xmlns:")
    \/ Includes(key, "/xmlns:")
    \/ Includes(key, "/@_xmlns:")

XmlnsPrefix(key) ==
    IF StartsWith(key, "@_xmlns:") THEN SubSeq(key, 9, Len(key))
    ELSE IF Includes(key, "/xmlns:") \/ Includes(key, "/@_xmlns:") THEN SplitXmlnsKey(key)
    ELSE SubSeq(key, 7, Len(key))

RECURSIVE ExtractFrom(_, _, _, _)
ExtractFrom(element, keys, i, xsdPrefix) ==
    IF i > Len(keys) THEN xsdPrefix
    ELSE LET key == keys[i]
         IN  IF key # "xmlns" /\ IsXmlnsKey(key) /\ element[key] = XSD_NAMESPACE_URI
             THEN ExtractFrom(element, keys, i + 1, XmlnsPrefix(key))
             ELSE ExtractFrom(element, keys, i + 1, xsdPrefix)

\* the xsdPrefix of the NamespaceContext
extractNamespaces(element) ==
    IF Falsy(element) THEN Undefined
    ELSE ExtractFrom(element, IF Has(element, "#keys") THEN element["#keys"] ELSE <<>>,
                     1, Undefined)

getTypeValue(container, elementName, xsdPrefix) ==
    IF Falsy(container) THEN NoNode
    ELSE IF Has(container, elementName) THEN container[elementName]
    ELSE IF Truthy(xsdPrefix) /\ Has(container, xsdPrefix \o ":" \o elementName)
         THEN container[xsdPrefix \o ":" \o elementName]
    ELSE NoNode

getAsArray(container, elementName, xsdPrefix) ==
    Let(getTypeValue(container, elementName, xsdPrefix), LAMBDA value :
        IF IsArray(value) THEN value.items
        ELSE IF value # NoNode THEN <<value>>
        ELSE <<>>)

-----------------------------------------------------------------------------
(* parseInt and parseFloat on decimal literals *)

WhiteSpaceChars == {" ", "\t", "\n", "\r"}

RECURSIVE SkipSpaces(_)
SkipSpaces(s) ==
    IF s # "" /\ Ch(s, 1) \in WhiteSpaceChars THEN SkipSpaces(SubSeq(s, 2, Len(s))) ELSE s

\* number of leading decimal digits of s
RECURSIVE DigitRun(_)
DigitRun(s) == IF s # "" /\ Ch(s, 1) \in DigitChars THEN 1 + DigitRun(SubSeq(s, 2, Len(s))) ELSE 0

RECURSIVE DigitsValue(_)
DigitsValue(d) ==
    IF d = "" THEN 0
    ELSE 10 * DigitsValue(SubSeq(d, 1, Len(d) - 1)) + (IndexOfChar(DigitAlphabet, Ch(d, Len(d))) - 1)

RECURSIVE StripTrailingZeros(_)
StripTrailingZeros(d) ==
    IF d # "" /\ Ch(d, Len(d)) = "0" THEN StripTrailingZeros(SubSeq(d, 1, Len(d) - 1)) ELSE d

\* the literal after its sign
Unsigned(s) == IF s # "" /\ Ch(s, 1) \in {"-", "+"} THEN SubSeq(s, 2, Len(s)) ELSE s

ParseInt(str) ==
    Let(SkipSpaces(str), LAMBDA s0 :
    Let(Unsigned(s0), LAMBDA s1 :
    Let(DigitRun(s1), LAMBDA n :
        IF n = 0 THEN NaN
        ELSE Dec(s0 # "" /\ Ch(s0, 1) = "-", DigitsValue(SubSeq(s1, 1, n)), ""))))

ParseFloat(str) ==
    Let(SkipSpaces(str), LAMBDA s0 :
    Let(Unsigned(s0), LAMBDA s1 :
    Let(DigitRun(s1), LAMBDA n :
    Let(SubSeq(s1, n + 1, Len(s1)), LAMBDA s2 :
    Let(IF s2 # "" /\ Ch(s2, 1) = "." THEN DigitRun(SubSeq(s2, 2, Len(s2))) ELSE 0, LAMBDA m :
        IF n = 0 /\ m = 0 THEN NaN
        ELSE Dec(s0 # "" /\ Ch(s0, 1) = "-", DigitsValue(SubSeq(s1, 1, n)),
                 StripTrailingZeros(SubSeq(s2, 2, m + 1))))))))

-----------------------------------------------------------------------------
(* parser/xsd-parser *)

\* what an enumeration node without a usable value attribute is stored as
ObjectValue == "[object Object]"

parseEnumerations(restriction, xsdPrefix) ==
    Let(getAsArray(restriction, "enumeration", xsdPrefix), LAMBDA enumerationArray :
        IF Len(enumerationArray) = 0 THEN <<>>
        ELSE [enumerations |->
                \* e.value || e
                MapSeq(LAMBDA e : IF Truthy(Attr(e, "value")) THEN e.value
                                  ELSE IF IsText(e) THEN e.text
                                  ELSE ObjectValue,
                       enumerationArray)])

\* a facet reader that takes the parsed number 0 for a missing value
parseFacetTruthy(restriction, facetName, kind, xsdPrefix) ==
    Let(getTypeValue(restriction, facetName, xsdPrefix), LAMBDA facet :
        IF ~Falsy(facet) /\ Attr(facet, "value") # Undefined
           /\ TruthyNum(IF kind = "int" THEN ParseInt(facet.value) ELSE ParseFloat(facet.value))
        THEN (IF kind = "int" THEN ParseInt(facet.value) ELSE ParseFloat(facet.value))
        ELSE NoNum)

\* kind is the parser argument: "int" (parseInt), "float" (parseFloat)
parseFacetNumber(restriction, facetName, kind, xsdPrefix) ==
    Let(getTypeValue(restriction, facetName, xsdPrefix), LAMBDA facet :
        IF ~Falsy(facet) /\ Attr(facet, "value") # Undefined
        THEN (IF kind = "int" THEN ParseInt(facet.value) ELSE ParseFloat(facet.value))
        ELSE NoNum)

\* parseFacetValue with the identity parser
parseFacetString(restriction, facetName, xsdPrefix) ==
    Let(getTypeValue(restriction, facetName, xsdPrefix), LAMBDA facet :
        IF ~Falsy(facet) THEN Attr(facet, "value") ELSE Undefined)

\* the facets read with parseInt, with parseFloat and with the identity
IntFacets == {"minLength", "maxLength", "totalDigits", "fractionDigits", "length"}
FloatFacets == {"minInclusive", "maxInclusive", "minExclusive", "maxExclusive"}
StringFacets == {"pattern", "whiteSpace"}

\* returns NoNode for null
parseSimpleType(st, xsdPrefix, name) ==
    IF Falsy(st) THEN NoNode
    ELSE \* getTypeValue(st, 'restriction', xsdPrefix) || {}
         Let(Let(getTypeValue(st, "restriction", xsdPrefix),
                 LAMBDA r : IF Falsy(r) THEN EmptyObject ELSE r),
             LAMBDA restriction :
                [name |-> name,
                 restriction |->
                    [base |-> stripNamespace(IF Truthy(Attr(restriction, "base"))
                                             THEN restriction.base ELSE "")]
                    @@ [facetName \in IntFacets \cup FloatFacets |->
                          parseFacetNumber(restriction, facetName,
                                           IF facetName \in IntFacets THEN "int" ELSE "float",
                                           xsdPrefix)]
                    @@ [facetName \in StringFacets |->
                          parseFacetString(restriction, facetName, xsdPrefix)]
                    @@ parseEnumerations(restriction, xsdPrefix)])

\* an optional field: left out of the record when the value is null
Optional(field, value) == IF value # NoNode THEN field :> value ELSE <<>>

parseAttribute(attr, xsdPrefix) ==
    [name |-> Attr(attr, "name"),
     type |-> Attr(attr, "type"),
     use |-> IF Truthy(Attr(attr, "use")) THEN attr.use ELSE "optional",
     default |-> Attr(attr, "default"),
     fixed |-> Attr(attr, "fixed")]
    @@ Optional("simpleType",
                parseSimpleType(getTypeValue(attr, "simpleType", xsdPrefix), xsdPrefix,
                                Attr(attr, "name")))

parseAttributes(parent, xsdPrefix) ==
    MapSeq(LAMBDA attr : parseAttribute(attr, xsdPrefix),
           getAsArray(parent, "attribute", xsdPrefix))

NotNull(v) == v # NoNode

RECURSIVE parseElement(_, _)
RECURSIVE parseComplexType(_, _, _)
RECURSIVE parseNestedElements(_, _, _)
RECURSIVE MergeChoices(_, _, _)
RECURSIVE ParseCompositors(_, _, _, _)

\* returns NoNode for null
parseElement(el, xsdPrefix) ==
    IF Falsy(el) THEN NoNode
    ELSE [name |-> Attr(el, "name"),
          type |-> IF Truthy(Attr(el, "type")) THEN stripNamespace(el.type) ELSE Undefined,
          attributes |-> parseAttributes(el, xsdPrefix),
          minOccurs |-> IF Attr(el, "minOccurs") # Undefined THEN ParseInt(el.minOccurs)
                        ELSE NoNum,
          maxOccurs |-> IF Attr(el, "maxOccurs") = "unbounded" THEN UnboundedOccurs
                        ELSE IF Attr(el, "maxOccurs") # Undefined THEN ParseInt(el.maxOccurs)
                        ELSE NoNum,
          isRef |-> Truthy(Attr(el, "ref")),
          ref |-> Attr(el, "ref"),
          nillable |-> Attr(el, "nillable") = "true"]
         @@ Optional("complexType",
                     parseComplexType(getTypeValue(el, "complexType", xsdPrefix), xsdPrefix,
                                      Attr(el, "name")))
         @@ Optional("simpleType",
                     parseSimpleType(getTypeValue(el, "simpleType", xsdPrefix), xsdPrefix,
                                     Attr(el, "name")))

\* a merge that keeps every choice element
KeepsEveryChoiceElement(choiceElement) == TRUE

\* a choice element that is also pushed onto the enclosing elements array:
\* choiceElement.complexType && Object.keys(choiceElement.complexType).length > 1
KeepsChoiceElement(choiceElement) ==
    Has(choiceElement, "complexType") /\ Cardinality(DOMAIN choiceElement.complexType) > 1

\* a merge that leaves the parent's choice field as it was
PushNoChoiceElements(choice, choiceElements) == choice

\* parentComplexType.choice.push(choiceElement), for each choiceElement
PushChoiceElements(choice, choiceElements) ==
    IF choice.has THEN [has |-> TRUE, items |-> choice.items \o choiceElements] ELSE choice

NoChoice == [has |-> FALSE, items |-> <<>>]

\* if (parentComplexType && !parentComplexType.choice) parentComplexType.choice = []
InitChoice(choice) == IF ~choice.has THEN [has |-> TRUE, items |-> <<>>] ELSE choice

\* the loop `for (const ch of choiceArray)`; acc carries the elements array and
\* the parent's choice field
MergeChoices(choiceArray, acc, xsdPrefix) ==
    IF Len(choiceArray) = 0 THEN acc
    ELSE MergeChoices(Tail(choiceArray),
                      Let(parseNestedElements(choiceArray[1], InitChoice(acc.choice),
                                              xsdPrefix),
                          LAMBDA inner :
                            [elements |-> acc.elements
                                          \o FilterSeq(KeepsChoiceElement, inner.elements),
                             choice |-> PushChoiceElements(inner.choice, inner.elements)]),
                      xsdPrefix)

\* parentChoice is parentComplexType.choice; the result carries the elements
\* array and the parent's choice field after the call
parseNestedElements(container, parentChoice, xsdPrefix) ==
    MergeChoices(getAsArray(container, "choice", xsdPrefix),
                 [elements |-> FilterSeq(NotNull,
                                         MapSeq(LAMBDA el : parseElement(el, xsdPrefix),
                                                getAsArray(container, "element", xsdPrefix))),
                  choice |-> parentChoice],
                 xsdPrefix)

\* the compositors of a complexType in the order the code visits them
Compositors == <<"sequence", "choice", "all", "extension">>

\* the visits of parseComplexType to its compositors, one after the other: acc
\* carries what each one parsed and complexType.choice;  an absent
\* compositor is skipped, and `complexType.choice = parsedChoice` for the
\* choice child
ParseCompositors(containers, i, acc, xsdPrefix) ==
    IF i > Len(containers) THEN acc
    ELSE ParseCompositors(containers, i + 1,
                          IF Falsy(containers[i])
                          THEN [parsed |-> Append(acc.parsed, <<>>), choice |-> acc.choice]
                          ELSE Let(parseNestedElements(containers[i], acc.choice, xsdPrefix),
                                   LAMBDA parsed :
                                     [parsed |-> Append(acc.parsed, parsed.elements),
                                      choice |-> IF Compositors[i] = "choice"
                                                 THEN [has |-> TRUE, items |-> parsed.elements]
                                                 ELSE parsed.choice]),
                          xsdPrefix)

\* a content that misses the push of the all compositor
ContentWithoutAll(parsed) == parsed[1] \o parsed[2] \o parsed[4]

\* a content that misses the push of the extension's sequence
ContentWithoutExtension(parsed) == parsed[1] \o parsed[2] \o parsed[3]

\* complexType.content after the pushes of the four compositors
ContentOf(parsed) == parsed[1] \o parsed[2] \o parsed[3] \o parsed[4]

\* the extension child of complexContent || simpleContent (NoNode without one)
ExtensionOf(ct, xsdPrefix) ==
    Let(getTypeValue(ct, "complexContent", xsdPrefix), LAMBDA complexContent :
        getTypeValue(IF ~Falsy(complexContent) THEN complexContent
                     ELSE getTypeValue(ct, "simpleContent", xsdPrefix),
                     "extension", xsdPrefix))

\* returns NoNode for null
parseComplexType(ct, xsdPrefix, name) ==
    IF Falsy(ct) THEN NoNode
    ELSE
    Let(ExtensionOf(ct, xsdPrefix), LAMBDA ext :
    Let(parseAttributes(ext, xsdPrefix), LAMBDA extAttributes :
    Let(ParseCompositors(<<getTypeValue(ct, "sequence", xsdPrefix),
                           getTypeValue(ct, "choice", xsdPrefix),
                           getTypeValue(ct, "all", xsdPrefix),
                           getTypeValue(ext, "sequence", xsdPrefix)>>,
                         1, [parsed |-> <<>>, choice |-> NoChoice], xsdPrefix), LAMBDA r :
        [name |-> name,
         attributes |-> parseAttributes(ct, xsdPrefix) \o extAttributes,
         content |-> ContentOf(r.parsed)]
        @@ (IF ~Falsy(getTypeValue(ct, "sequence", xsdPrefix))
            THEN [sequence |-> r.parsed[1]] ELSE <<>>)
        @@ (IF r.choice.has THEN [choice |-> r.choice.items] ELSE <<>>)
        @@ (IF ~Falsy(getTypeValue(ct, "all", xsdPrefix)) THEN [all |-> r.parsed[3]] ELSE <<>>)
        @@ (IF ~Falsy(ext)
            THEN [extension |->
                    [base |-> IF Truthy(Attr(ext, "base")) THEN stripNamespace(ext.base)
                              ELSE Undefined,
                     attributes |-> extAttributes]
                    @@ (IF ~Falsy(getTypeValue(ext, "sequence", xsdPrefix))
                        THEN [sequence |-> r.parsed[4]] ELSE <<>>)]
            ELSE <<>>))))

-----------------------------------------------------------------------------
parseComplexTypes(xsd, xsdPrefix) ==
    FilterSeq(NotNull, MapSeq(LAMBDA ct : parseComplexType(ct, xsdPrefix, Attr(ct, "name")),
                              getAsArray(xsd, "complexType", xsdPrefix)))

parseSimpleTypes(xsd, xsdPrefix) ==
    FilterSeq(NotNull, MapSeq(LAMBDA st : parseSimpleType(st, xsdPrefix, Attr(st, "name")),
                              getAsArray(xsd, "simpleType", xsdPrefix)))

parseSimpleTypesFromAnnotation(annotation, xsdPrefix) ==
    Let(getTypeValue(annotation, "documentation", xsdPrefix), LAMBDA documentation :
        IF ~Falsy(documentation) THEN parseSimpleTypes(documentation, xsdPrefix) ELSE <<>>)

\* element.attributes = [...complexType.attributes]
WithAttributesOf(element, complexTypes) ==
    IF element # NoNode /\ Truthy(element.type) /\ FindByName(complexTypes, element.type) > 0
    THEN [element EXCEPT !.attributes =
            complexTypes[FindByName(complexTypes, element.type)].attributes]
    ELSE element

parseElements(xsd, xsdPrefix) ==
    Let(parseComplexTypes(xsd, xsdPrefix), LAMBDA complexTypes :
        FilterSeq(NotNull,
                  MapSeq(LAMBDA el : WithAttributesOf(parseElement(el, xsdPrefix), complexTypes),
                         getAsArray(xsd, "element", xsdPrefix))))

RECURSIVE collectFromElements(_)
RECURSIVE collectFromComplexType(_)

\* the synthesized top-level element of a ref
RefElement(el) == [el EXCEPT !.name = IF Truthy(el.ref) THEN el.ref
                                      ELSE IF Truthy(el.name) THEN el.name ELSE "",
                             !.isRef = TRUE]

collectFromElements(elements) ==
    IF Len(elements) = 0 THEN <<>>
    ELSE (IF elements[1].isRef THEN <<RefElement(elements[1])>> ELSE <<>>)
         \o (IF Has(elements[1], "complexType")
             THEN collectFromComplexType(elements[1].complexType) ELSE <<>>)
         \o collectFromElements(Tail(elements))

collectFromComplexType(ct) ==
    (IF Has(ct, "sequence") THEN collectFromElements(ct.sequence) ELSE <<>>)
    \o (IF Has(ct, "choice") THEN collectFromElements(ct.choice) ELSE <<>>)
    \o (IF Has(ct, "all") THEN collectFromElements(ct.all) ELSE <<>>)
    \o (IF Has(ct, "extension") /\ Has(ct.extension, "sequence")
        THEN collectFromElements(ct.extension.sequence) ELSE <<>>)

collectReferencedElements(complexTypes) ==
    Flatten(MapSeq(collectFromComplexType, complexTypes))

IsSchemaKey(key) == key = "schema" \/ EndsWith(key, ":schema")

findSchemaElement(parsed) ==
    Let(FilterSeq(IsSchemaKey, parsed["#keys"]), LAMBDA schemaKeys :
        IF Len(schemaKeys) >= 1 THEN parsed[schemaKeys[1]] ELSE parsed)

\* a push that puts the new entries in front
PushFront(array, items) == items \o array

\* a push onto an array that outlives the call: what the call before left in
\* elements is still there
PushRetained(array, items) ==
    (IF Has(schema, "elements") THEN schema.elements ELSE <<>>) \o array \o items

\* array.push(...items)
Push(array, items) == array \o items

parseXsd(parsed) ==
    Let(findSchemaElement(parsed), LAMBDA xsd :
    \* xsdPrefix || undefined
    Let(IF Truthy(extractNamespaces(xsd)) THEN extractNamespaces(xsd) ELSE Undefined,
        LAMBDA xsdPrefix :
    Let(parseElements(xsd, xsdPrefix), LAMBDA elements :
    Let(parseComplexTypes(xsd, xsdPrefix), LAMBDA complexTypes :
    Let(parseSimpleTypes(xsd, xsdPrefix), LAMBDA simpleTypes :
    Let(getTypeValue(xsd, "annotation", xsdPrefix), LAMBDA annotation :
    Let(IF ~Falsy(annotation) THEN parseSimpleTypesFromAnnotation(annotation, xsdPrefix)
        ELSE <<>>, LAMBDA annotationSimpleTypes :
        [targetNamespace |-> Attr(xsd, "targetNamespace"),
         elementFormDefault |-> Attr(xsd, "elementFormDefault"),
         elements |-> Push(elements, collectReferencedElements(complexTypes)),
         complexTypes |-> complexTypes,
         simpleTypes |-> Push(simpleTypes, annotationSimpleTypes)])))))))

-----------------------------------------------------------------------------
(* generators/validators: the dependency sorts *)

\* the captures of /([A-Z][a-zA-Z0-9]*)Schema/g over text, in match order
RECURSIVE AlnumRunEnd(_, _)
AlnumRunEnd(text, i) ==
    IF i < Len(text) /\ Ch(text, i + 1) \in AlnumChars THEN AlnumRunEnd(text, i + 1) ELSE i

\* where the greedy match starting at i puts "Schema" (0: no match at i)
SchemaMatchAt(text, i) ==
    IF Ch(text, i) \notin UpperChars THEN 0
    ELSE LET r == AlnumRunEnd(text, i)
             hits == {j \in (i + 1)..(r - 5) : SubSeq(text, j, j + 5) = "Schema"}
         IN  IF hits = {} THEN 0 ELSE CHOOSE j \in hits : \A h \in hits : h <= j

RECURSIVE SchemaRegexExec(_, _)
SchemaRegexExec(text, lastIndex) ==
    IF lastIndex > Len(text) THEN <<>>
    ELSE LET j == SchemaMatchAt(text, lastIndex)
         IN  IF j = 0 THEN SchemaRegexExec(text, lastIndex + 1)
             ELSE <<SubSeq(text, lastIndex, j - 1)>> \o SchemaRegexExec(text, j + 6)

\* String.prototype.replace(sub, rep) with a string pattern: the first occurrence
ReplaceFirst(str, sub, rep) ==
    LET at == IndexOf(str, sub)
    IN  IF at = 0 THEN str
        ELSE SubSeq(str, 1, at - 1) \o rep \o SubSeq(str, at + Len(sub), Len(str))

\* nameToIndex.get(name): index of the last entry with that name, 0 for undefined
NameToIndex(list, name) ==
    LET hits == {i \in 1..Len(list) : Truthy(list[i].name) /\ list[i].name = name}
    IN  IF hits = {} THEN 0 ELSE CHOOSE i \in hits : \A j \in hits : j <= i

\* a visit() without the guard on the name
NeverAnonymous(type) == FALSE

\* if (!type.name) return
IsAnonymous(type) == ~Truthy(type.name)

\* a visit() that never descends
NoSimpleDependencies(simpleType) == <<>>

\* what visit() of a simpleType descends into
SimpleDependencies(simpleType) ==
    IF Truthy(simpleType.restriction.base) THEN <<simpleType.restriction.base>> ELSE <<>>

\* what visit() of a complexType descends into
ComplexDependencies(complexType, nam, sch) ==
    LET mapped == mapComplexType(complexType, nam, sch)
        currentSchemaName == getSchemaName(complexType.name, nam)
        self == ReplaceFirst(currentSchemaName, "Schema", "")
        NotSelf(depName) == depName # self
    IN  FilterSeq(NotSelf, SchemaRegexExec(mapped.zodObject, 1))

\* a visit() that forgets what it has emitted
KeepVisited(set, name) == set

\* visited.add(name)
MarkVisited(set, name) == set \cup {name}

Frame(idx) == [idx |-> idx, entered |-> FALSE, deps |-> <<>>, k |-> 1]

Top == stack[Len(stack)]
Pop == SubSeq(stack, 1, Len(stack) - 1)
SetTop(frame) == [stack EXCEPT ![Len(stack)] = frame]

\* visit(): the guards, then visiting.add and the dependencies of the type
VisitEnter(list, deps) ==
    LET type == list[Top.idx]
    IN  /\ stack # <<>>
        /\ ~Top.entered
        /\ IF IsAnonymous(type) \/ type.name \in visited
           THEN /\ stack' = Pop
                /\ UNCHANGED <<compileVars, visiting, warnings>>
           ELSE IF type.name \in visiting
           THEN /\ warnings' = Append(warnings, type.name)
                /\ stack' = Pop
                /\ UNCHANGED visiting
           ELSE /\ visiting' = visiting \cup {type.name}
                /\ stack' = SetTop([Top EXCEPT !.entered = TRUE, !.deps = deps])
                /\ UNCHANGED warnings
        /\ UNCHANGED <<compileVars, calls, doc, schema, naming, pc, visited, result, loopIdx,
                       sortedSimpleTypes, sortedComplexTypes>>

\* visit(): the next dependency; a recursive call when nameToIndex knows it
VisitDependency(list) ==
    /\ stack # <<>>
    /\ Top.entered
    /\ Top.k <= Len(Top.deps)
    /\ LET depIndex == NameToIndex(list, Top.deps[Top.k])
           advanced == SetTop([Top EXCEPT !.k = @ + 1])
       IN  stack' = IF depIndex # 0 THEN Append(advanced, Frame(depIndex)) ELSE advanced
    /\ UNCHANGED <<compileVars, calls, doc, schema, naming, pc, visited, visiting, result, loopIdx, warnings,
                   sortedSimpleTypes, sortedComplexTypes>>

\* visit(): visiting.delete, visited.add, result.push, return
VisitExit(list) ==
    /\ stack # <<>>
    /\ Top.entered
    /\ Top.k > Len(Top.deps)
    /\ visiting' = visiting \ {list[Top.idx].name}
    /\ visited' = MarkVisited(visited, list[Top.idx].name)
    /\ result' = Append(result, list[Top.idx])
    /\ stack' = Pop
    /\ UNCHANGED <<compileVars, calls, doc, schema, naming, pc, loopIdx, warnings,
                   sortedSimpleTypes, sortedComplexTypes>>

\* for (const type of list) visit(type)
SortLoop(list) ==
    /\ stack = <<>>
    /\ loopIdx <= Len(list)
    /\ stack' = <<Frame(loopIdx)>>
    /\ loopIdx' = loopIdx + 1
    /\ UNCHANGED <<compileVars, calls, doc, schema, naming, pc, visited, visiting, result, warnings,
                   sortedSimpleTypes, sortedComplexTypes>>

SimpleSortLoop == pc = "sortSimpleTypes" /\ SortLoop(schema.simpleTypes)

SimpleVisitEnter ==
    /\ pc = "sortSimpleTypes"
    /\ VisitEnter(schema.simpleTypes, SimpleDependencies(schema.simpleTypes[Top.idx]))

SimpleVisitDependency == pc = "sortSimpleTypes" /\ VisitDependency(schema.simpleTypes)

SimpleVisitExit == pc = "sortSimpleTypes" /\ VisitExit(schema.simpleTypes)

\* topologicalSortSimpleTypes returns; topologicalSortComplexTypes starts
SimpleSortReturn ==
    /\ pc = "sortSimpleTypes"
    /\ stack = <<>>
    /\ loopIdx > Len(schema.simpleTypes)
    /\ sortedSimpleTypes' = result
    /\ pc' = "sortComplexTypes"
    /\ visited' = {}
    /\ visiting' = {}
    /\ result' = <<>>
    /\ loopIdx' = 1
    /\ UNCHANGED <<compileVars, calls, doc, schema, naming, stack, warnings, sortedComplexTypes>>

ComplexSortLoop == pc = "sortComplexTypes" /\ SortLoop(schema.complexTypes)

ComplexVisitEnter ==
    /\ pc = "sortComplexTypes"
    /\ VisitEnter(schema.complexTypes,
                  ComplexDependencies(schema.complexTypes[Top.idx], naming, schema))

ComplexVisitDependency == pc = "sortComplexTypes" /\ VisitDependency(schema.complexTypes)

ComplexVisitExit == pc = "sortComplexTypes" /\ VisitExit(schema.complexTypes)

\* topologicalSortComplexTypes returns
ComplexSortReturn ==
    /\ pc = "sortComplexTypes"
    /\ stack = <<>>
    /\ loopIdx > Len(schema.complexTypes)
    /\ sortedComplexTypes' = result
    /\ pc' = "sorted"
    /\ UNCHANGED <<compileVars, calls, doc, schema, naming, visited, visiting, result, stack, loopIdx, warnings,
                   sortedSimpleTypes>>

-----------------------------------------------------------------------------
(* Documents: what the tokenizer yields for an XSD text *)

Tag(prefix, localName) == IF prefix = "" THEN localName ELSE prefix \o ":" \o localName

\* the children with one tag: absent, a bare node, or an array
Children(prefix, localName, nodes) ==
    IF Len(nodes) = 0 THEN <<>>
    ELSE IF Len(nodes) = 1 THEN Tag(prefix, localName) :> nodes[1]
    ELSE Tag(prefix, localName) :> Arr(nodes)

\* an element whose content is only child elements; an empty tag is the text ""
Node(attributes, children) ==
    IF DOMAIN attributes = {} /\ DOMAIN children = {} THEN TextNode("")
    ELSE attributes @@ children

NoAttributes == <<>>

\* <schema xmlns:p="http://www.w3.org/2001/XMLSchema"> with its children
SchemaDocument(prefix, elements, complexTypes, simpleTypes, annotationSimpleTypes) ==
    LET annotation ==
            IF Len(annotationSimpleTypes) = 0 THEN <<>>
            ELSE <<Node(NoAttributes,
                        Children(prefix, "documentation",
                                 <<Node(NoAttributes,
                                        Children(prefix, "simpleType", annotationSimpleTypes))>>))>>
        xmlns == IF prefix = "" THEN "xmlns" ELSE "xmlns:" \o prefix
        root == (xmlns :> XSD_NAMESPACE_URI)
                @@ ("#keys" :> <<xmlns>>)
                @@ Children(prefix, "annotation", annotation)
                @@ Children(prefix, "element", elements)
                @@ Children(prefix, "complexType", complexTypes)
                @@ Children(prefix, "simpleType", simpleTypes)
    IN  ("#keys" :> <<"?xml", Tag(prefix, "schema")>>)
        @@ ("?xml" :> [version |-> "1.0", encoding |-> "UTF-8"])
        @@ (Tag(prefix, "schema") :> root)

\* the sequences over S of length lo..hi
SeqsOf(S, lo, hi) == UNION {[1..n -> S] : n \in lo..hi}

Named(name) == IF name = Undefined THEN <<>> ELSE [name |-> name]

\* <simpleType name=".."><restriction base=".."/></simpleType>
SimpleTypeNode(prefix, name, base) ==
    Node(Named(name), Children(prefix, "restriction", <<[base |-> base]>>))

\* <element name=".." type=".."/>
TypedElementNode(name, type) == [name |-> name, type |-> type]

\* <element ref=".."/>
RefElementNode(target) == [ref |-> target]

\* <element name=".."><complexType>..</complexType></element>
InlineElementNode(prefix, name, complexType) ==
    [name |-> name] @@ Children(prefix, "complexType", <<complexType>>)

\* <element name=".."><simpleType><restriction base=".."/></simpleType></element>
SimpleElementNode(prefix, name, base) ==
    [name |-> name] @@ Children(prefix, "simpleType", <<SimpleTypeNode(prefix, Undefined, base)>>)

\* <sequence>, <choice> or <all> with its elements and the choices nested in it
CompositorNode(prefix, elements, choices) ==
    Node(NoAttributes,
         Children(prefix, "element", elements) @@ Children(prefix, "choice", choices))

\* <extension base=".."> with its sequence
ExtensionNode(prefix, base, sequence) ==
    [base |-> base] @@ Children(prefix, "sequence", sequence)

\* <complexType name=".."> with its compositors and its complexContent
\* extension, each a list of no or one node
ComplexTypeWith(prefix, name, sequence, choice, all, extension) ==
    Node(Named(name),
         Children(prefix, "sequence", sequence)
         @@ Children(prefix, "choice", choice)
         @@ Children(prefix, "all", all)
         @@ Children(prefix, "complexContent",
                     IF Len(extension) = 0 THEN <<>>
                     ELSE <<Node(NoAttributes, Children(prefix, "extension", extension))>>))

\* <complexType name=".."> with a sequence of elements and, when base is
\* given, a complexContent extension of base
ComplexTypeNode(prefix, name, fields, base) ==
    ComplexTypeWith(prefix, name,
                    IF Len(fields) = 0 THEN <<>> ELSE <<CompositorNode(prefix, fields, <<>>)>>,
                    <<>>, <<>>,
                    IF base = Undefined THEN <<>> ELSE <<ExtensionNode(prefix, base, <<>>)>>)

-----------------------------------------------------------------------------
(* The documents of the dependency sorts *)

MaxSimpleTypes == 2
MaxComplexTypes == 2

SimpleTypeNames == {"A", "B", "C", Undefined}
SimpleTypeBases == {"xs:string", "B", "C"}

SimpleTypeNodes == {SimpleTypeNode("xs", n, b) : n \in SimpleTypeNames, b \in SimpleTypeBases}

ComplexTypeNames == {"A", "B", "b"}
FieldTypes == {"A", "B", "b"}

ComplexTypeNodes ==
    {ComplexTypeNode("xs", n, <<>>, Undefined) : n \in ComplexTypeNames}
    \cup {ComplexTypeNode("xs", n, <<TypedElementNode("f", t)>>, Undefined) :
            n \in ComplexTypeNames, t \in FieldTypes}
    \cup {ComplexTypeNode("xs", n, <<>>, "B") : n \in ComplexTypeNames}

\* documents that declare simple and complex types side by side
MaxMixedTypes == 2
MixedSimpleTypeNodes == {SimpleTypeNode("xs", n, "xs:string") : n \in {"A", Undefined}}
MixedComplexTypeNodes ==
    {ComplexTypeNode("xs", n, <<TypedElementNode("f", "xs:string")>>, Undefined) :
        n \in {"A", Undefined}}

SortDocuments ==
    {SchemaDocument("xs", <<>>, <<>>, sts, <<>>) : sts \in SeqsOf(SimpleTypeNodes, 0, MaxSimpleTypes)}
    \cup {SchemaDocument("xs", <<>>, cts, <<>>, <<>>) :
            cts \in SeqsOf(ComplexTypeNodes, 1, MaxComplexTypes)}
    \cup {SchemaDocument("xs", <<>>, cts, sts, <<>>) :
            sts \in SeqsOf(MixedSimpleTypeNodes, 1, MaxMixedTypes),
            cts \in SeqsOf(MixedComplexTypeNodes, 1, MaxMixedTypes)}

-----------------------------------------------------------------------------
(* The documents of the parser *)

MaxAlternatives == 2
MaxDeclarations == 2

\* <complexType><sequence><element ref="g"/></sequence></complexType>
InnerComplexType ==
    ComplexTypeWith("xs", Undefined, <<CompositorNode("xs", <<RefElementNode("g")>>, <<>>)>>,
                    <<>>, <<>>, <<>>)

\* the alternatives of a choice nested in a sequence: an element with a type
\* attribute, with an inline complexType, with an inline simpleType, a ref,
\* and an element whose inline complexType is an empty tag
Alternatives ==
    {TypedElementNode("c", "xs:int"),
     InlineElementNode("xs", "k", InnerComplexType),
     SimpleElementNode("xs", "s", "xs:string"),
     RefElementNode("h"),
     InlineElementNode("xs", "z", TextNode(""))}

NestedChoices ==
    {<<>>} \cup {<<CompositorNode("xs", alts, <<>>)>> : alts \in SeqsOf(Alternatives, 0, MaxAlternatives)}

SequenceNodes ==
    {CompositorNode("xs", direct, choices) :
        direct \in {<<>>, <<TypedElementNode("d", "xs:string")>>, <<RefElementNode("g")>>},
        choices \in NestedChoices}

ChoiceNodes ==
    {CompositorNode("xs", <<TypedElementNode("e", "xs:string")>>, <<>>),
     CompositorNode("xs", <<RefElementNode("g")>>, <<>>),
     CompositorNode("xs", <<TypedElementNode("e", "xs:string")>>,
                    <<CompositorNode("xs", <<TypedElementNode("ce", "xs:int")>>, <<>>)>>)}

AllNodes ==
    {CompositorNode("xs", <<TypedElementNode("a", "xs:string")>>, <<>>),
     CompositorNode("xs", <<>>, <<CompositorNode("xs", <<TypedElementNode("ca", "xs:int")>>, <<>>)>>),
     CompositorNode("xs", <<>>,
                    <<CompositorNode("xs", <<InlineElementNode("xs", "ka", InnerComplexType)>>,
                                     <<>>)>>)}

ExtensionNodes ==
    {ExtensionNode("xs", "Base", <<>>),
     ExtensionNode("xs", "Base",
                   <<CompositorNode("xs", <<TypedElementNode("x", "xs:string")>>, <<>>)>>),
     ExtensionNode("xs", "Base",
                   <<CompositorNode("xs", <<>>,
                                    <<CompositorNode("xs", <<RefElementNode("i")>>, <<>>)>>)>>)}

\* no node, or one of the set
OptionalNode(S) == {<<>>} \cup {<<n>> : n \in S}

\* one complexType next to a global element
CompositorDocument(sequence, choice, all, extension) ==
    SchemaDocument("xs", <<TypedElementNode("g", "xs:int")>>,
                   <<ComplexTypeWith("xs", "A", sequence, choice, all, extension)>>,
                   <<>>, <<>>)

\* a sequence with every nested choice, with and without a choice child
NestedChoiceDocuments ==
    {CompositorDocument(sequence, choice, <<>>, <<>>) :
        sequence \in OptionalNode(SequenceNodes), choice \in OptionalNode(ChoiceNodes)}

MixedSequenceNodes ==
    {CompositorNode("xs", <<TypedElementNode("d", "xs:string")>>, <<>>),
     CompositorNode("xs", <<TypedElementNode("d", "xs:string")>>,
                    <<CompositorNode("xs", <<TypedElementNode("c", "xs:int"),
                                             InlineElementNode("xs", "k", InnerComplexType)>>,
                                     <<>>)>>)}

\* every combination of the four compositors
CompositorDocuments ==
    {CompositorDocument(sequence, choice, all, extension) :
        sequence \in OptionalNode(MixedSequenceNodes), choice \in OptionalNode(ChoiceNodes),
        all \in OptionalNode(AllNodes), extension \in OptionalNode(ExtensionNodes)}

DeclaredElements ==
    {<<>>, <<TypedElementNode("g", "xs:int")>>,
     <<TypedElementNode("g", "xs:int"), TypedElementNode("h", "xs:int")>>,
     <<TypedElementNode("g", "xs:int"), TypedElementNode("g", "xs:string")>>}

DeclaredComplexTypes ==
    {ComplexTypeNode("xs", n, fields, Undefined) :
        n \in {"A", "B"},
        fields \in {<<TypedElementNode("f", "xs:string")>>,
                    <<TypedElementNode("f", "xs:string"), RefElementNode("g")>>}}

DeclaredSimpleTypes == {SimpleTypeNode("xs", n, "xs:string") : n \in {"S", "T"}}

\* several declarations of each category, refs and simpleTypes in the
\* annotation
DeclarationDocuments ==
    {SchemaDocument("xs", elements, complexTypes, simpleTypes, annotationSimpleTypes) :
        elements \in DeclaredElements,
        complexTypes \in SeqsOf(DeclaredComplexTypes, 0, MaxDeclarations),
        simpleTypes \in {<<>>, <<SimpleTypeNode("xs", "S", "xs:string")>>},
        annotationSimpleTypes \in SeqsOf(DeclaredSimpleTypes, 0, 1)}

ParseDocuments == NestedChoiceDocuments \cup CompositorDocuments \cup DeclarationDocuments

-----------------------------------------------------------------------------
NoDocument == [absent |-> TRUE]
NoSchema == [absent |-> TRUE]

IdleSort ==
    /\ visited = {}
    /\ visiting = {}
    /\ result = <<>>
    /\ stack = <<>>
    /\ loopIdx = 1
    /\ warnings = <<>>
    /\ sortedSimpleTypes = <<>>
    /\ sortedComplexTypes = <<>>

\* before compileXsd is called
IdleCompile ==
    /\ options = [absent |-> TRUE]
    /\ disk = [absent |-> TRUE]
    /\ xsdFiles = <<>>
    /\ fileIdx = 1
    /\ pending = <<>>
    /\ error = Undefined

\* before a file has been read
Init ==
    /\ doc = NoDocument
    /\ schema = NoSchema
    /\ naming = Undefined
    /\ pc = "start"
    /\ calls = <<>>
    /\ IdleCompile
    /\ IdleSort

\* compileXsd: schema = parseXsd(xsdContent), then generateValidators(schema, naming)
CompileXsd ==
    /\ pc = "start"
    /\ \E parsed \in SortDocuments, convention \in NamingConventions :
          /\ doc' = parsed
          /\ schema' = parseXsd(parsed)
          /\ naming' = convention
    /\ pc' = "sortSimpleTypes"
    /\ UNCHANGED <<compileVars, calls, visited, visiting, result, stack, loopIdx, warnings,
                   sortedSimpleTypes, sortedComplexTypes>>

\* parseXsd(xsdContent) on its own, as the parser's tests call it
ParseXsd ==
    /\ pc = "start"
    /\ \E parsed \in ParseDocuments :
          /\ doc' = parsed
          /\ schema' = parseXsd(parsed)
    /\ pc' = "parsed"
    /\ UNCHANGED <<compileVars, calls, naming, visited, visiting, result, stack, loopIdx, warnings,
                   sortedSimpleTypes, sortedComplexTypes>>

NextParse == ParseXsd

SpecParse == Init /\ [][NextParse]_vars

\* the steps of generateValidators, but for the one that maps a complexType
MechanicalSortStep ==
    \/ SimpleSortLoop
    \/ SimpleVisitEnter
    \/ SimpleVisitDependency
    \/ SimpleVisitExit
    \/ SimpleSortReturn
    \/ ComplexSortLoop
    \/ ComplexVisitDependency
    \/ ComplexVisitExit
    \/ ComplexSortReturn

NextSort == CompileXsd \/ MechanicalSortStep \/ ComplexVisitEnter

SpecSort == Init /\ [][NextSort]_vars

\* ENABLED <<ComplexVisitEnter>>_vars: the guards of VisitEnter, each of whose
\* branches changes the stack
ComplexVisitEnterEnabled == pc = "sortComplexTypes" /\ stack # <<>> /\ ~Top.entered

\* the sorts are synchronous code: once called, a step that can be taken is
\* taken.  The second conjunct is WF_vars(ComplexVisitEnter) with its ENABLED
\* written out.
SpecSortFair ==
    /\ SpecSort
    /\ WF_vars(MechanicalSortStep)
    /\ ([]<>(~ComplexVisitEnterEnabled) \/ []<><<ComplexVisitEnter>>_vars)

-----------------------------------------------------------------------------
(* Properties of the dependency sorts *)

NamesOf(list) == {list[i].name : i \in {j \in DOMAIN list : Truthy(list[j].name)}}

\* the Schema invariant: no two entries of the list carry the same name
UniquelyNamed(list) ==
    \A i, j \in DOMAIN list :
        (Truthy(list[i].name) /\ list[i].name = list[j].name) => i = j

RECURSIVE TransitiveClosure(_, _)
TransitiveClosure(R, n) ==
    IF n = 0 THEN R
    ELSE TransitiveClosure(
            R \cup {<<g[1][1], g[2][2]>> : g \in {h \in R \X R : h[1][2] = h[2][1]}},
            n - 1)

Acyclic(R) == \A e \in TransitiveClosure(R, Cardinality(R)) : e[1] # e[2]

\* name -> restriction.base, where the base names a simpleType of the schema
SimpleTypeReferences ==
    {<<schema.simpleTypes[i].name, schema.simpleTypes[i].restriction.base>> :
        i \in {j \in DOMAIN schema.simpleTypes :
                 /\ Truthy(schema.simpleTypes[j].name)
                 /\ schema.simpleTypes[j].restriction.base \in NamesOf(schema.simpleTypes)}}

FieldTypesOf(complexType) ==
    {complexType.content[i].type : i \in DOMAIN complexType.content}

\* name -> the type of a field of its content, where it names a complexType
ComplexTypeReferences ==
    UNION {{<<schema.complexTypes[i].name, t>> :
              t \in FieldTypesOf(schema.complexTypes[i]) \cap NamesOf(schema.complexTypes)} :
           i \in {j \in DOMAIN schema.complexTypes : Truthy(schema.complexTypes[j].name)}}

SimpleSortReturned == pc \in {"sortComplexTypes", "sorted"}
ComplexSortReturned == pc = "sorted"

PositionsOf(list, name) == {p \in DOMAIN list : list[p].name = name}

\* C1: for a schema of uniquely named complex types without cyclic
\* references, under every naming convention, a named complexType that is the
\* type of a field of another one's content stands, in the list the complex
\* sort returns, at an earlier or equal index than the one that refers to it.
C1_TopologicalOrder ==
    (/\ ComplexSortReturned
     /\ UniquelyNamed(schema.complexTypes)
     /\ Acyclic(ComplexTypeReferences))
    => \A p, q \in DOMAIN sortedComplexTypes :
          (/\ Truthy(sortedComplexTypes[q].name)
           /\ sortedComplexTypes[q].name \in FieldTypesOf(sortedComplexTypes[p]))
          => q <= p

\* C2: when a complexType Derived with extension.base = Base is declared
\* before the complexType Base (which depends on nothing), the complex sort
\* returns Base before Derived.
C2_BaseBeforeDerived ==
    (ComplexSortReturned /\ UniquelyNamed(schema.complexTypes))
    => \A i, j \in DOMAIN schema.complexTypes :
          LET Derived == schema.complexTypes[i]
              Base == schema.complexTypes[j]
          IN  (/\ i < j
               /\ Truthy(Derived.name) /\ Truthy(Base.name)
               /\ Has(Derived, "extension")
               /\ Derived.extension.base = Base.name
               /\ ~Has(Base, "extension")
               /\ Base.content = <<>>)
              => \E p, q \in DOMAIN sortedComplexTypes :
                    /\ p < q
                    /\ sortedComplexTypes[p] = Base
                    /\ sortedComplexTypes[q] = Derived

\* C3: for a schema whose simple types have no cyclic restriction chain, every
\* simpleType of the list the simple sort returns whose restriction.base names
\* another simpleType of the schema has a type of that name before it.
C3_SimpleBaseFirst ==
    (SimpleSortReturned /\ Acyclic(SimpleTypeReferences))
    => \A p \in DOMAIN sortedSimpleTypes :
          LET base == sortedSimpleTypes[p].restriction.base
          IN  (base \in NamesOf(schema.simpleTypes) /\ base # sortedSimpleTypes[p].name)
              => \E q \in 1..(p - 1) : sortedSimpleTypes[q].name = base

\* a simpleType declared before the base it restricts has been sorted: the
\* base stands first
C3_Witness ==
    /\ SimpleSortReturned
    /\ Acyclic(SimpleTypeReferences)
    /\ \E i, j \in DOMAIN schema.simpleTypes :
          /\ i < j
          /\ Truthy(schema.simpleTypes[i].name)
          /\ schema.simpleTypes[i].restriction.base = schema.simpleTypes[j].name
          /\ sortedSimpleTypes = <<schema.simpleTypes[j], schema.simpleTypes[i]>>

\* every named entry of the list is in the sorted list exactly once, and the
\* sorted list holds nothing else
ExactlyOnce(list, sorted) ==
    /\ \A i \in DOMAIN list :
          Truthy(list[i].name) => Cardinality({p \in DOMAIN sorted : sorted[p] = list[i]}) = 1
    /\ \A p \in DOMAIN sorted : \E i \in DOMAIN list : sorted[p] = list[i]
    /\ \A n \in NamesOf(list) : Cardinality(PositionsOf(sorted, n)) = 1

C5_AnonymousInPlace ==
    /\ SimpleSortReturned
       => \A i \in DOMAIN schema.simpleTypes :
             ~Truthy(schema.simpleTypes[i].name)
             => (i \in DOMAIN sortedSimpleTypes
                 /\ sortedSimpleTypes[i] = schema.simpleTypes[i])
    /\ ComplexSortReturned
       => \A i \in DOMAIN schema.complexTypes :
             ~Truthy(schema.complexTypes[i].name)
             => (i \in DOMAIN sortedComplexTypes
                 /\ sortedComplexTypes[i] = schema.complexTypes[i])

\* C5: the lists the sorts return hold no anonymous entry: an entry without a
\* name is left out.
C5_AnonymousOmitted ==
    /\ SimpleSortReturned
       => \A p \in DOMAIN sortedSimpleTypes : Truthy(sortedSimpleTypes[p].name)
    /\ ComplexSortReturned
       => \A p \in DOMAIN sortedComplexTypes : Truthy(sortedComplexTypes[p].name)

\* both sorts have returned for a schema with an anonymous simpleType and an
\* anonymous complexType next to named ones
C5_Witness ==
    /\ pc = "sorted"
    /\ \E i \in DOMAIN schema.simpleTypes : ~Truthy(schema.simpleTypes[i].name)
    /\ \E i \in DOMAIN schema.complexTypes : ~Truthy(schema.complexTypes[i].name)
    /\ sortedSimpleTypes # <<>>
    /\ sortedComplexTypes # <<>>

-----------------------------------------------------------------------------
(* Properties of the parser *)

Parsed == pc = "parsed"

\* the children of a node of the document with one tag, as a list
NodesOf(node, localName) ==
    IF IsText(node) \/ ~Has(node, Tag("xs", localName)) THEN <<>>
    ELSE IF IsArray(node[Tag("xs", localName)]) THEN node[Tag("xs", localName)].items
    ELSE <<node[Tag("xs", localName)]>>

\* the only child with that tag, or the empty tag
NodeOf(node, localName) ==
    IF NodesOf(node, localName) = <<>> THEN TextNode("") ELSE NodesOf(node, localName)[1]

DocumentRoot == doc[Tag("xs", "schema")]

\* the field of a parsed complexType, empty when absent
FieldOf(complexType, field) == IF Has(complexType, field) THEN complexType[field] ELSE <<>>

ExtensionSequenceOf(complexType) ==
    IF Has(complexType, "extension") THEN FieldOf(complexType.extension, "sequence") ELSE <<>>

\* the parsed element is the one the node declares
Declares(node, element) ==
    element.name = Attr(node, "name") /\ element.ref = Attr(node, "ref")

DeclaredIn(node, list) == \E p \in DOMAIN list : Declares(node, list[p])

HasInlineComplexType(node) == ~Falsy(NodeOf(node, "complexType"))

RangeOf(list) == {list[p] : p \in DOMAIN list}

RECURSIVE ComplexTypesWithin(_)
\* a parsed complexType and the inline complexTypes of its elements
ComplexTypesWithin(complexType) ==
    {complexType}
    \cup UNION {ComplexTypesWithin(e.complexType) :
                  e \in {f \in RangeOf(FieldOf(complexType, "sequence"))
                               \cup RangeOf(FieldOf(complexType, "choice"))
                               \cup RangeOf(FieldOf(complexType, "all"))
                               \cup RangeOf(ExtensionSequenceOf(complexType))
                               \cup RangeOf(complexType.content) : Has(f, "complexType")}}

\* every complexType parseComplexType returned for the document
ParsedComplexTypes ==
    UNION {ComplexTypesWithin(ct) : ct \in RangeOf(schema.complexTypes)}
    \cup UNION {ComplexTypesWithin(e.complexType) :
                  e \in {f \in RangeOf(schema.elements) : Has(f, "complexType")}}

\* the choices nested in a compositor of the node of a complexType
NestedChoicesOf(node, compositor) == NodesOf(NodeOf(node, compositor), "choice")

\* the sequence of the extension of the node of a complexType
ExtensionSequenceNode(node) ==
    NodeOf(NodeOf(NodeOf(node, "complexContent"), "extension"), "sequence")

\* a choice is nested in the sequence, the all or the extension sequence
HasNestedChoice(node) ==
    \/ NestedChoicesOf(node, "sequence") # <<>>
    \/ NestedChoicesOf(node, "all") # <<>>
    \/ NodesOf(ExtensionSequenceNode(node), "choice") # <<>>

\* C6 as stated: the content of every parsed complexType is the concatenation
\* of its sequence, choice, all and extension.sequence fields, in this order.
C6_ContentIsConcatenation ==
    Parsed => \A ct \in ParsedComplexTypes :
                 ct.content = FieldOf(ct, "sequence") \o FieldOf(ct, "choice")
                              \o FieldOf(ct, "all") \o ExtensionSequenceOf(ct)

\* C6: the content of every parsed complexType is its sequence, then a prefix
\* of its choice field, then its all, then its extension.sequence; and for a
\* top-level complexType with no choice nested in its sequence, all or
\* extension sequence the prefix is the whole choice field.
C6_ContentIsConcatenationOfParsed ==
    Parsed =>
      /\ \A ct \in ParsedComplexTypes :
            \E own \in {SubSeq(FieldOf(ct, "choice"), 1, n) : n \in 0..Len(FieldOf(ct, "choice"))} :
                ct.content = FieldOf(ct, "sequence") \o own
                             \o FieldOf(ct, "all") \o ExtensionSequenceOf(ct)
      /\ \A i \in DOMAIN schema.complexTypes :
            ~HasNestedChoice(NodesOf(DocumentRoot, "complexType")[i])
            => schema.complexTypes[i].content
                 = FieldOf(schema.complexTypes[i], "sequence")
                   \o FieldOf(schema.complexTypes[i], "choice")
                   \o FieldOf(schema.complexTypes[i], "all")
                   \o ExtensionSequenceOf(schema.complexTypes[i])

\* a complexType with all four compositors was parsed, and a choice nested in
\* its all made the choice field longer than what content holds of it
C6_Witness ==
    /\ Parsed
    /\ \E i \in DOMAIN schema.complexTypes :
          LET ct == schema.complexTypes[i]
          IN  /\ FieldOf(ct, "sequence") # <<>>
              /\ FieldOf(ct, "all") # <<>>
              /\ ExtensionSequenceOf(ct) # <<>>
              /\ Len(FieldOf(ct, "choice")) >= 2
              /\ Len(ct.content) < Len(FieldOf(ct, "sequence")) + Len(FieldOf(ct, "choice"))
                                   + Len(FieldOf(ct, "all")) + Len(ExtensionSequenceOf(ct))

\* the elements declared in the choices nested in a compositor of a node
NestedChoiceElements(node, compositor) ==
    Flatten(MapSeq(LAMBDA choice : NodesOf(choice, "element"), NestedChoicesOf(node, compositor)))

\* C7 as stated: every element of a choice nested in the sequence or the all
\* of a top-level complexType is in the content and in the choice field.
C7_NestedChoiceInBoth ==
    Parsed =>
      \A i \in DOMAIN schema.complexTypes : \A compositor \in {"sequence", "all"} :
         \A e \in RangeOf(NestedChoiceElements(NodesOf(DocumentRoot, "complexType")[i], compositor)) :
            /\ DeclaredIn(e, schema.complexTypes[i].content)
            /\ DeclaredIn(e, FieldOf(schema.complexTypes[i], "choice"))

\* C7: an element of a choice nested in the sequence or the all of a top-level
\* complexType is in the list of that compositor and in content exactly when it
\* has a non-empty inline complexType; it is in the choice field when the
\* choice is nested in the all, and, when it is nested in the sequence, exactly
\* when the complexType has no non-empty choice child of its own.
C7_NestedChoiceMerge ==
    Parsed =>
      \A i \in DOMAIN schema.complexTypes : \A compositor \in {"sequence", "all"} :
         \A e \in RangeOf(NestedChoiceElements(NodesOf(DocumentRoot, "complexType")[i], compositor)) :
            /\ DeclaredIn(e, FieldOf(schema.complexTypes[i], compositor)) <=> HasInlineComplexType(e)
            /\ DeclaredIn(e, schema.complexTypes[i].content) <=> HasInlineComplexType(e)
            /\ compositor = "all" => DeclaredIn(e, FieldOf(schema.complexTypes[i], "choice"))
            /\ compositor = "sequence"
               => (DeclaredIn(e, FieldOf(schema.complexTypes[i], "choice"))
                   <=> Falsy(NodeOf(NodesOf(DocumentRoot, "complexType")[i], "choice")))

\* a choice nested in a sequence held an element with an inline complexType
\* next to one with a type attribute: the first was merged into the sequence,
\* the second was not, and both are in the choice field
C7_Witness ==
    /\ Parsed
    /\ \E i \in DOMAIN schema.complexTypes :
          \E e, f \in RangeOf(NestedChoiceElements(NodesOf(DocumentRoot, "complexType")[i], "sequence")) :
             /\ HasInlineComplexType(e)
             /\ Truthy(Attr(f, "type"))
             /\ DeclaredIn(e, FieldOf(schema.complexTypes[i], "sequence"))
             /\ ~DeclaredIn(f, schema.complexTypes[i].content)
             /\ DeclaredIn(e, FieldOf(schema.complexTypes[i], "choice"))
             /\ DeclaredIn(f, FieldOf(schema.complexTypes[i], "choice"))

\* the node of a complexType whose only compositor is a sequence of one
\* element and one choice of two alternatives
OneDirectAndTwoAlternatives(node) ==
    /\ Len(NodesOf(NodeOf(node, "sequence"), "element")) = 1
    /\ Len(NestedChoicesOf(node, "sequence")) = 1
    /\ Len(NestedChoiceElements(node, "sequence")) = 2
    /\ NodesOf(NestedChoicesOf(node, "sequence")[1], "choice") = <<>>
    /\ NodesOf(node, "choice") = <<>>
    /\ NodesOf(node, "all") = <<>>
    /\ NodesOf(node, "complexContent") = <<>>

\* the choice field holds the two alternatives in document order
HoldsAlternatives(node, complexType) ==
    /\ Len(FieldOf(complexType, "choice")) = 2
    /\ \A p \in 1..2 :
          Declares(NestedChoiceElements(node, "sequence")[p], complexType.choice[p])

\* C8 as stated: for a sequence of one direct element and one nested choice
\* of two alternatives, content has length 2 and the choice field holds the
\* two alternatives in document order.
C8_ContentOfLengthTwo ==
    Parsed =>
      \A i \in DOMAIN schema.complexTypes :
         OneDirectAndTwoAlternatives(NodesOf(DocumentRoot, "complexType")[i])
         => /\ Len(schema.complexTypes[i].content) = 2
            /\ HoldsAlternatives(NodesOf(DocumentRoot, "complexType")[i], schema.complexTypes[i])

\* C8: for a sequence of one direct element and one nested choice of two
\* alternatives, the length of content is 1 plus the number of alternatives
\* with a non-empty inline complexType, and the choice field holds the two
\* alternatives in document order.
C8_ContentCountsInlineAlternatives ==
    Parsed =>
      \A i \in DOMAIN schema.complexTypes :
         OneDirectAndTwoAlternatives(NodesOf(DocumentRoot, "complexType")[i])
         => /\ Len(schema.complexTypes[i].content)
                 = 1 + Cardinality({p \in 1..2 :
                          HasInlineComplexType(
                             NestedChoiceElements(NodesOf(DocumentRoot, "complexType")[i],
                                                  "sequence")[p])})
            /\ HoldsAlternatives(NodesOf(DocumentRoot, "complexType")[i], schema.complexTypes[i])

\* the sequence of one direct element and a choice of two alternatives with a
\* type attribute was parsed: content holds the direct element only
C8_Witness ==
    /\ Parsed
    /\ \E i \in DOMAIN schema.complexTypes :
          /\ OneDirectAndTwoAlternatives(NodesOf(DocumentRoot, "complexType")[i])
          /\ \A p \in 1..2 :
                Truthy(Attr(NestedChoiceElements(NodesOf(DocumentRoot, "complexType")[i],
                                                 "sequence")[p], "type"))
          /\ Len(schema.complexTypes[i].content) = 1
          /\ Len(schema.complexTypes[i].choice) = 2

\* the declarations of one category at the top level of the document carry
\* distinct names
DeclaredOnce(localName) ==
    \A i, j \in DOMAIN NodesOf(DocumentRoot, localName) :
        Attr(NodesOf(DocumentRoot, localName)[i], "name")
          = Attr(NodesOf(DocumentRoot, localName)[j], "name") => i = j

UniqueDeclarations ==
    DeclaredOnce("element") /\ DeclaredOnce("complexType") /\ DeclaredOnce("simpleType")

\* C9 as stated, for documents whose top-level declarations carry distinct
\* names within their category: no two entries of elements, of complexTypes
\* or of simpleTypes of the parsed schema share a name.
C9_UniqueNames ==
    (Parsed /\ UniqueDeclarations)
    => /\ UniquelyNamed(schema.elements)
       /\ UniquelyNamed(schema.complexTypes)
       /\ UniquelyNamed(schema.simpleTypes)

\* the first entries of a parsed list are the declarations of the document,
\* in order
StartsWithDeclared(list, localName) ==
    /\ Len(list) >= Len(NodesOf(DocumentRoot, localName))
    /\ \A i \in DOMAIN NodesOf(DocumentRoot, localName) :
          list[i].name = Attr(NodesOf(DocumentRoot, localName)[i], "name")

\* C9: for documents whose top-level declarations carry distinct names within
\* their category, no two complexTypes of the parsed schema share a name, and
\* elements and simpleTypes start with the directly parsed declarations, no
\* two of which share a name; only the entries appended after them (by the
\* reference collector, from annotation/documentation) may repeat a name.
C9_UniqueDeclaredNames ==
    (Parsed /\ UniqueDeclarations)
    => /\ UniquelyNamed(schema.complexTypes)
       /\ Len(schema.complexTypes) = Len(NodesOf(DocumentRoot, "complexType"))
       /\ StartsWithDeclared(schema.elements, "element")
       /\ UniquelyNamed(SubSeq(schema.elements, 1, Len(NodesOf(DocumentRoot, "element"))))
       /\ \A p \in DOMAIN schema.elements :
             schema.elements[p].isRef <=> p > Len(NodesOf(DocumentRoot, "element"))
       /\ StartsWithDeclared(schema.simpleTypes, "simpleType")
       /\ UniquelyNamed(SubSeq(schema.simpleTypes, 1, Len(NodesOf(DocumentRoot, "simpleType"))))

\* a document with distinct declarations was parsed into a schema where a
\* collected ref repeats the name of a declared element and a simpleType of the
\* annotation repeats the name of a declared simpleType
C9_Witness ==
    /\ Parsed
    /\ UniqueDeclarations
    /\ Len(NodesOf(DocumentRoot, "element")) >= 2
    /\ ~UniquelyNamed(schema.elements)
    /\ ~UniquelyNamed(schema.simpleTypes)

RECURSIVE SumSeq(_)
SumSeq(numbers) == IF Len(numbers) = 0 THEN 0 ELSE numbers[1] + SumSeq(Tail(numbers))

ContainerTags ==
    <<"element", "complexType", "sequence", "choice", "all", "complexContent", "extension">>

RECURSIVE RefUses(_, _)
\* how many elements at or below the node carry ref = target
RefUses(node, target) ==
    IF IsText(node) THEN 0
    ELSE (IF Attr(node, "ref") = target THEN 1 ELSE 0)
         + SumSeq(MapSeq(LAMBDA localName :
                            SumSeq(MapSeq(LAMBDA child : RefUses(child, target),
                                          NodesOf(node, localName))),
                         ContainerTags))

RefTargets == {"g", "h", "i"}

\* C10 as stated: the entries of elements after the directly parsed ones are
\* synthesized from refs, each with isRef and the ref target as its name, and
\* there is exactly one of them for every use of a ref in the top-level
\* complexTypes of the document.
C10_OnePerRefUse ==
    Parsed =>
      LET appended == SubSeq(schema.elements, Len(NodesOf(DocumentRoot, "element")) + 1,
                             Len(schema.elements))
      IN  /\ \A p \in DOMAIN appended : appended[p].isRef /\ appended[p].name = appended[p].ref
          /\ \A target \in RefTargets :
                Cardinality({p \in DOMAIN appended : appended[p].name = target})
                  = SumSeq(MapSeq(LAMBDA node : RefUses(node, target),
                                  NodesOf(DocumentRoot, "complexType")))

-----------------------------------------------------------------------------
(* One schema written under several bindings of the XML Schema namespace *)

MaxParses == 3

Prefixes == {"xs", "xsd", ""}

\* a reference to a built-in type of the XML Schema namespace, or to a type of
\* the target namespace
TypeReferences ==
    {[xsd |-> TRUE, local |-> "string"],
     [xsd |-> TRUE, local |-> "int"],
     [xsd |-> FALSE, local |-> "tns:T"]}

\* the reference as the document writes it
QName(prefix, reference) ==
    IF reference.xsd THEN Tag(prefix, reference.local) ELSE reference.local

\* <attribute name=".." type=".."/>
AttributeNode(name, type) == [name |-> name, type |-> type]

\* the references of one schema, whatever the prefix it is written with
LogicalSchemas ==
    [element : TypeReferences,
     attributes : SeqsOf(TypeReferences, 0, 1),
     base : TypeReferences,
     extension : TypeReferences]

PrefixDocument(prefix, logical) ==
    SchemaDocument(
        prefix,
        <<TypedElementNode("e", QName(prefix, logical.element))>>,
        <<ComplexTypeWith(
              prefix, "A",
              <<CompositorNode(prefix,
                               <<TypedElementNode("f", QName(prefix, logical.element))>>,
                               <<>>)>>,
              <<>>, <<>>,
              <<ExtensionNode(prefix, QName(prefix, logical.extension), <<>>)>>)
          @@ Children(prefix, "attribute",
                      MapSeq(LAMBDA reference : AttributeNode("id", QName(prefix, reference)),
                             logical.attributes))>>,
        <<SimpleTypeNode(prefix, "S", QName(prefix, logical.base))>>,
        <<>>)

\* parseXsd on the same schema, written with one more prefix
ParsePrefixed ==
    /\ pc \in {"start", "prefixed"}
    /\ Len(calls) < MaxParses
    /\ \E prefix \in Prefixes, logical \in LogicalSchemas :
          /\ calls # <<>> => logical = calls[1].logical
          /\ doc' = PrefixDocument(prefix, logical)
          /\ schema' = parseXsd(PrefixDocument(prefix, logical))
          /\ calls' = Append(calls, [prefix |-> prefix, logical |-> logical,
                                     schema |-> parseXsd(PrefixDocument(prefix, logical))])
    /\ pc' = "prefixed"
    /\ UNCHANGED <<compileVars, naming, visited, visiting, result, stack, loopIdx, warnings,
                   sortedSimpleTypes, sortedComplexTypes>>

NextPrefix == ParsePrefixed

SpecPrefix == Init /\ [][NextPrefix]_vars

\* every type or base reference a parsed schema holds
ReferencesOf(parsed) ==
    {e.type : e \in RangeOf(parsed.elements)}
    \cup UNION {{a.type : a \in RangeOf(e.attributes)} : e \in RangeOf(parsed.elements)}
    \cup UNION {{e.type : e \in RangeOf(c.content)} : c \in RangeOf(parsed.complexTypes)}
    \cup UNION {{a.type : a \in RangeOf(c.attributes)} : c \in RangeOf(parsed.complexTypes)}
    \cup {c.extension.base : c \in {d \in RangeOf(parsed.complexTypes) : Has(d, "extension")}}
    \cup {s.restriction.base : s \in RangeOf(parsed.simpleTypes)}

\* C11: the schemas parsed from one schema written with the prefix xs, with
\* the prefix xsd and with the XML Schema namespace as the default namespace
\* are equal, attribute types included
C11_PrefixAgnostic ==
    \A first \in RangeOf(calls), second \in RangeOf(calls) : first.schema = second.schema

C12_ReferencesStripped ==
    pc = "prefixed" => \A reference \in ReferencesOf(schema) : ~Includes(reference, ":")

-----------------------------------------------------------------------------
(* What escapes parseXsd: `elementName in container` of getTypeValue raises *)
(* a TypeError when the container is a non-empty string, the tokenizer's    *)
(* value for an element that holds only text                                *)

RaisesTypeError(container) == IsText(container) /\ container.text # ""

\* the value under a tag as the one container a getTypeValue caller goes on with
One(node, tag, kind, xsdPrefix) ==
    IF Falsy(getTypeValue(node, tag, xsdPrefix)) THEN {}
    ELSE {<<getTypeValue(node, tag, xsdPrefix), kind>>}

\* the values under a tag as the containers a getAsArray caller loops over
Each(node, tag, kind, xsdPrefix) ==
    {<<child, kind>> : child \in RangeOf(getAsArray(node, tag, xsdPrefix))}

\* the nodes a parse function hands on to the parse functions it calls, each
\* with the function that receives it
Callees(node, kind, xsdPrefix) ==
    CASE kind = "schema" ->
            Each(node, "element", "element", xsdPrefix)
            \cup Each(node, "complexType", "complexType", xsdPrefix)
            \cup Each(node, "simpleType", "simpleType", xsdPrefix)
            \cup One(node, "annotation", "annotation", xsdPrefix)
      [] kind = "annotation" -> One(node, "documentation", "documentation", xsdPrefix)
      [] kind = "documentation" -> Each(node, "simpleType", "simpleType", xsdPrefix)
      [] kind = "element" ->
            Each(node, "attribute", "attribute", xsdPrefix)
            \cup One(node, "complexType", "complexType", xsdPrefix)
            \cup One(node, "simpleType", "simpleType", xsdPrefix)
      [] kind = "attribute" -> One(node, "simpleType", "simpleType", xsdPrefix)
      [] kind = "simpleType" -> One(node, "restriction", "restriction", xsdPrefix)
      [] kind = "restriction" -> {}
      [] kind = "complexType" ->
            Each(node, "attribute", "attribute", xsdPrefix)
            \cup One(node, "sequence", "compositor", xsdPrefix)
            \cup One(node, "choice", "compositor", xsdPrefix)
            \cup One(node, "all", "compositor", xsdPrefix)
            \cup (IF ~Falsy(getTypeValue(node, "complexContent", xsdPrefix))
                  THEN One(node, "complexContent", "content", xsdPrefix)
                  ELSE One(node, "simpleContent", "content", xsdPrefix))
      [] kind = "content" -> One(node, "extension", "extension", xsdPrefix)
      [] kind = "extension" ->
            Each(node, "attribute", "attribute", xsdPrefix)
            \cup One(node, "sequence", "compositor", xsdPrefix)
      [] kind = "compositor" ->
            Each(node, "element", "element", xsdPrefix)
            \cup Each(node, "choice", "compositor", xsdPrefix)

RECURSIVE Containers(_, _, _)
\* every node a call of getTypeValue or getAsArray receives as its container
\* while the parse function of the kind works on the node
Containers(node, kind, xsdPrefix) ==
    IF Falsy(node) THEN {}
    ELSE {node} \cup UNION {Containers(callee[1], callee[2], xsdPrefix) :
                               callee \in Callees(node, kind, xsdPrefix)}

\* parseXsd(xsdContent) throws instead of returning
parseXsdRaises(parsed) ==
    \E container \in Containers(findSchemaElement(parsed), "schema",
                                extractNamespaces(findSchemaElement(parsed))) :
        RaisesTypeError(container)

Raised == [raised |-> "TypeError"]

\* how a declaration appears in a document: not at all, as an empty element,
\* as an element that holds only text, or as an element with attributes
Anomalies == {"absent", "empty", "text", "node"}

Anomalous(anomaly, node) ==
    CASE anomaly = "absent" -> <<>>
      [] anomaly = "empty" -> <<TextNode("")>>
      [] anomaly = "text" -> <<TextNode("t")>>
      [] anomaly = "node" -> <<node>>

\* a schema whose children miss names and bases, are empty, hold only text or
\* carry an unknown tag
AnomalousSchema(element, complexType, simpleType, documentation, unknown) ==
    ("xmlns:xs" :> XSD_NAMESPACE_URI)
    @@ ("#keys" :> <<"xmlns:xs">>)
    @@ Children("xs", "annotation",
                IF documentation = "absent" THEN <<>>
                ELSE <<Children("xs", "documentation",
                                Anomalous(documentation,
                                          Children("xs", "simpleType",
                                                   <<SimpleTypeNode("xs", "D", "xs:int")>>)))>>)
    @@ Children("xs", "element", Anomalous(element, [type |-> "xs:string"]))
    @@ Children("xs", "complexType",
                Anomalous(complexType,
                          Children("xs", "sequence",
                                   <<CompositorNode("xs", <<TextNode("")>>, <<>>)>>)
                          @@ Children("xs", "attribute", <<[use |-> "required"]>>)))
    @@ Children("xs", "simpleType", Anomalous(simpleType, [name |-> "S"]))
    @@ Children("xs", "invalidElement", Anomalous(unknown, [name |-> "Test"]))

\* the tokenizer's tree with its root element
RootedAt(tag, root) ==
    ("#keys" :> <<"?xml", tag>>)
    @@ ("?xml" :> [version |-> "1.0", encoding |-> "UTF-8"])
    @@ (tag :> root)

AnomalousDocuments ==
    {RootedAt("xs:schema", AnomalousSchema(e, c, s, d, u)) :
        e \in Anomalies, c \in Anomalies, s \in Anomalies, d \in Anomalies,
        u \in {"absent", "node"}}
    \cup {RootedAt("xs:schema", TextNode("")),
          RootedAt("xs:schema", TextNode("t")),
          RootedAt("html", AnomalousSchema("node", "node", "node", "node", "node")),
          RootedAt("html", TextNode("t"))}

\* parseXsd(xsdContent) on a text the tokenizer accepts: it returns or throws
ParseAnomalous ==
    /\ pc = "start"
    /\ \E parsed \in AnomalousDocuments :
          /\ doc' = parsed
          /\ IF parseXsdRaises(parsed)
             THEN schema' = Raised /\ pc' = "raised"
             ELSE schema' = parseXsd(parsed) /\ pc' = "parsed"
    /\ UNCHANGED <<compileVars, calls, naming, visited, visiting, result, stack, loopIdx, warnings,
                   sortedSimpleTypes, sortedComplexTypes>>

NextAnomalous == ParseAnomalous

SpecAnomalous == Init /\ [][NextAnomalous]_vars

\* C13: for every tree the tokenizer produces, bare text nodes, unknown tags,
\* missing names and a missing schema root included, parseXsd returns a Schema
\* and does not raise
C13_NeverRaises == pc # "raised"

-----------------------------------------------------------------------------
(* Restrictions: one facet keyword, written once or more often, next to the *)
(* enumeration children                                                     *)

MaxOccurrences == 2

IntValues == {Num(0), Num(12)}
FloatValues == {Num(0), Dec(TRUE, 1, "5")}
StringValues == {"", "[a-z]+"}
EnumerationValues == {"a", "b", ""}

Facets == IntFacets \cup FloatFacets \cup StringFacets

ValuesOf(facetName) ==
    IF facetName \in IntFacets THEN IntValues
    ELSE IF facetName \in FloatFacets THEN FloatValues
    ELSE StringValues

\* the text of a value attribute
ValueLiteral(facetName, value) ==
    IF facetName \in StringFacets THEN value
    ELSE (IF value.neg THEN "-" ELSE "") \o NatToString(value.int)
         \o (IF value.frac = "" THEN "" ELSE "." \o value.frac)

\* <minLength value=".."/>, <enumeration value=".."/>
FacetNode(literal) == [value |-> literal]

\* <restriction base=".."> with its facets
RestrictionNode(prefix, base, facetName, values, enumerations) ==
    [base |-> base]
    @@ Children(prefix, facetName, MapSeq(LAMBDA value : FacetNode(ValueLiteral(facetName, value)),
                                   values))
    @@ Children(prefix, "enumeration", MapSeq(FacetNode, enumerations))

FacetDocument(facetName, values, enumerations) ==
    SchemaDocument("xs", <<>>, <<>>,
                   <<Node(Named("S"),
                          Children("xs", "restriction",
                                   <<RestrictionNode("xs", "xs:string", facetName, values,
                                                     enumerations)>>))>>,
                   <<>>)

\* parseXsd on a schema with one restricted simpleType
ParseRestriction ==
    /\ pc = "start"
    /\ \E facetName \in Facets, enumerations \in SeqsOf(EnumerationValues, 0, MaxOccurrences) :
       \E values \in SeqsOf(ValuesOf(facetName), 0, MaxOccurrences) :
          /\ doc' = FacetDocument(facetName, values, enumerations)
          /\ schema' = parseXsd(FacetDocument(facetName, values, enumerations))
          /\ calls' = <<[facet |-> facetName, values |-> values,
                         enumerations |-> enumerations]>>
    /\ pc' = "parsed"
    /\ UNCHANGED <<compileVars, naming, visited, visiting, result, stack, loopIdx, warnings,
                   sortedSimpleTypes, sortedComplexTypes>>

NextRestriction == ParseRestriction

SpecRestriction == Init /\ [][NextRestriction]_vars

\* the restriction parseXsd returned and the facet the document was written with
ParsedRestriction == schema.simpleTypes[1].restriction
Written == calls[1]

\* the value of a facet field that was not written
AbsentFacet(facetName) == IF facetName \in StringFacets THEN Undefined ELSE NoNum

\* C14 as stated: restriction.<facet> is the value of the facet's value
\* attribute, as a number or verbatim, for the value 0 and also when the
\* facet keyword occurs more than once
C14_FacetFidelity ==
    (Parsed /\ Len(Written.values) >= 1)
        => ParsedRestriction[Written.facet] \in RangeOf(Written.values)

\* C14 amended: restriction.<facet> is the value of the value attribute, 0
\* included, of a facet keyword that occurs once; it is undefined for a facet
\* keyword that occurs more than once
C14_SingleFacetFidelity ==
    Parsed =>
        /\ Len(Written.values) = 1 => ParsedRestriction[Written.facet] = Written.values[1]
        /\ Len(Written.values) > 1
              => ParsedRestriction[Written.facet] = AbsentFacet(Written.facet)

C14_Witness ==
    /\ Parsed
    /\ Written.facet = "minLength"
    /\ Written.values = <<Num(0)>>
    /\ ParsedRestriction.minLength = Num(0)

\* C15: restriction.enumerations is absent when the restriction has no
\* enumeration child, and else the value attributes of the enumeration
\* children in document order, the empty string included
C15_EnumerationValues ==
    Parsed =>
        IF Written.enumerations = <<>> THEN ~Has(ParsedRestriction, "enumerations")
        ELSE /\ Has(ParsedRestriction, "enumerations")
             /\ ParsedRestriction.enumerations = Written.enumerations

-----------------------------------------------------------------------------
(* The mappers on parsed elements and attributes *)

OccursLiterals == {"0", "1", "2"}

\* the attributes a declaration may leave out
OptionalAttribute(key, values) == {<<>>} \cup {key :> value : value \in values}

ElementDeclarations ==
    {[name |-> "item"] @@ type @@ minOccurs @@ maxOccurs :
        type \in OptionalAttribute("type", {"xs:string", "A"}),
        minOccurs \in OptionalAttribute("minOccurs", OccursLiterals),
        maxOccurs \in OptionalAttribute("maxOccurs", OccursLiterals \cup {"unbounded"})}

AttributeDeclarations ==
    {[name |-> "status"] @@ type @@ use @@ default @@ fixed :
        type \in OptionalAttribute("type", {"xs:string"}),
        use \in OptionalAttribute("use", {"optional", "required"}),
        default \in OptionalAttribute("default", {"active"}),
        fixed \in OptionalAttribute("fixed", {"1.0"})}

\* the schema the mappers look custom types up in
MapperSchema ==
    parseXsd(SchemaDocument("xs", <<>>, <<ComplexTypeNode("xs", "A", <<>>, Undefined)>>,
                            <<>>, <<>>))

\* mapElement(element, naming, schema) on a parsed element
MapElement ==
    /\ pc = "start"
    /\ \E el \in ElementDeclarations, convention \in NamingConventions :
          /\ naming' = convention
          /\ calls' = <<[kind |-> "element",
                         input |-> parseElement(el, "xs"),
                         output |-> mapElement(parseElement(el, "xs"), convention,
                                               MapperSchema)]>>
    /\ pc' = "mapped"
    /\ UNCHANGED <<compileVars, doc, schema, visited, visiting, result, stack, loopIdx, warnings,
                   sortedSimpleTypes, sortedComplexTypes>>

\* mapAttribute(attribute, naming, schema) on a parsed attribute
MapAttribute ==
    /\ pc = "start"
    /\ \E attr \in AttributeDeclarations, convention \in NamingConventions :
          /\ naming' = convention
          /\ calls' = <<[kind |-> "attribute",
                         input |-> parseAttribute(attr, "xs"),
                         output |-> mapAttribute(parseAttribute(attr, "xs"), convention,
                                                 MapperSchema)]>>
    /\ pc' = "mapped"
    /\ UNCHANGED <<compileVars, doc, schema, visited, visiting, result, stack, loopIdx, warnings,
                   sortedSimpleTypes, sortedComplexTypes>>

NextMap == MapElement \/ MapAttribute

SpecMap == Init /\ [][NextMap]_vars

Mapped(kind) == pc = "mapped" /\ calls[1].kind = kind

\* maxOccurs is "unbounded" or an integer greater than 1
ManyOccurs(maxOccurs) ==
    \/ maxOccurs = UnboundedOccurs
    \/ maxOccurs.k = "number" /\ ~maxOccurs.neg /\ maxOccurs.frac = "" /\ maxOccurs.int > 1

\* C16: mapElement marks the field optional exactly when minOccurs = 0, and
\* an array, its type suffixed with [] and its validator wrapped in
\* z.array(..), exactly when maxOccurs is "unbounded" or an integer above 1
C16_Cardinality ==
    Mapped("element") =>
        LET element == calls[1].input
            mapped == calls[1].output
        IN  /\ mapped.optional <=> element.minOccurs = Num(0)
            /\ mapped.isArray <=> ManyOccurs(element.maxOccurs)
            /\ EndsWith(mapped.tsType, "[]") <=> ManyOccurs(element.maxOccurs)
            /\ (StartsWith(mapped.zodValidator, "z.array(") /\ EndsWith(mapped.zodValidator, ")"))
                  <=> ManyOccurs(element.maxOccurs)

\* an optional array: minOccurs="0" with maxOccurs="2"
C16_Witness ==
    /\ Mapped("element")
    /\ calls[1].input.minOccurs = Num(0)
    /\ calls[1].input.maxOccurs = Num(2)
    /\ calls[1].output.optional
    /\ calls[1].output.isArray

\* C17: the field mapAttribute produces for an attribute with a default or a
\* fixed value is optional, whatever the attribute's use
C17_DefaultOrFixedIsOptional ==
    (Mapped("attribute") /\ (calls[1].input.default # Undefined \/ calls[1].input.fixed # Undefined))
        => /\ calls[1].output.optional
           /\ Includes(TsField(calls[1].output), "?")
           /\ Includes(ZodField(calls[1].output), ".optional()")

-----------------------------------------------------------------------------
(* A complexType that extends a base type *)

MaxOwnFields == 2

OwnElementNames == {"a", "b"}
OwnAttributeNames == {"p", "q"}
ExtensionElementNames == {"c", "d"}
ExtensionAttributeNames == {"r", "s"}
ContentTags == {"complexContent", "simpleContent"}

\* <sequence> with one typed element per name, or no sequence for no name
SequenceOf(prefix, names) ==
    IF Len(names) = 0 THEN <<>>
    ELSE <<CompositorNode(prefix,
                          MapSeq(LAMBDA name : TypedElementNode(name, Tag(prefix, "string")),
                                 names),
                          <<>>)>>

AttributesOf(prefix, names) ==
    Children(prefix, "attribute",
             MapSeq(LAMBDA name : AttributeNode(name, Tag(prefix, "string")), names))

\* the base type, with an element and an attribute of its own
BaseTypeNode(prefix) ==
    ComplexTypeWith(prefix, "B", SequenceOf(prefix, <<"z">>), <<>>, <<>>, <<>>)
    @@ AttributesOf(prefix, <<"w">>)

\* <complexType name="A"> with its own sequence and attributes and, under
\* complexContent or simpleContent, <extension base="tns:B"> with its sequence
\* and attributes
ExtendedTypeNode(prefix, contentTag, written) ==
    [name |-> "A"]
    @@ Children(prefix, "sequence", SequenceOf(prefix, written.ownElements))
    @@ AttributesOf(prefix, written.ownAttributes)
    @@ Children(prefix, contentTag,
                <<Children(prefix, "extension",
                           <<ExtensionNode(prefix, "tns:B",
                                           SequenceOf(prefix, written.extensionElements))
                             @@ AttributesOf(prefix, written.extensionAttributes)>>)>>)

ExtendedTypes ==
    [ownElements : SeqsOf(OwnElementNames, 0, MaxOwnFields),
     ownAttributes : SeqsOf(OwnAttributeNames, 0, 1),
     extensionElements : SeqsOf(ExtensionElementNames, 0, MaxOwnFields),
     extensionAttributes : SeqsOf(ExtensionAttributeNames, 0, MaxOwnFields)]

ExtensionDocument(contentTag, written, baseDeclared) ==
    SchemaDocument("xs", <<>>,
                   (IF baseDeclared THEN <<BaseTypeNode("xs")>> ELSE <<>>)
                   \o <<ExtendedTypeNode("xs", contentTag, written)>>,
                   <<>>, <<>>)

\* parseXsd on a schema with a derived complexType
ParseExtension ==
    /\ pc = "start"
    /\ \E contentTag \in ContentTags, written \in ExtendedTypes, baseDeclared \in BOOLEAN :
          /\ doc' = ExtensionDocument(contentTag, written, baseDeclared)
          /\ schema' = parseXsd(ExtensionDocument(contentTag, written, baseDeclared))
          /\ calls' = <<written>>
    /\ pc' = "parsed"
    /\ UNCHANGED <<compileVars, naming, visited, visiting, result, stack, loopIdx, warnings,
                   sortedSimpleTypes, sortedComplexTypes>>

NextExtension == ParseExtension

SpecExtension == Init /\ [][NextExtension]_vars

\* the parsed derived type
Derived == schema.complexTypes[FindByName(schema.complexTypes, "A")]

\* the names of a list of fields, in order
NameList(list) == [i \in DOMAIN list |-> list[i].name]

\* C19: of a complexType with an extension, content is the type's own
\* compositor elements followed by the elements of the extension's sequence,
\* attributes is the type's own attributes followed by the extension's, the
\* extension keeps the base as a reference, and nothing of the base type is
\* in content or attributes
C19_ExtensionOwnFieldsOnly ==
    Parsed =>
        /\ NameList(Derived.content) = calls[1].ownElements \o calls[1].extensionElements
        /\ NameList(Derived.attributes)
              = calls[1].ownAttributes \o calls[1].extensionAttributes
        /\ Derived.extension.base = "B"
        /\ NameList(Derived.extension.attributes) = calls[1].extensionAttributes
        /\ \A field \in RangeOf(Derived.content) \cup RangeOf(Derived.attributes) :
              field.name \notin {"z", "w"}

\* the base type is declared with its own fields; the derived type has own
\* and extension elements and attributes
C19_Witness ==
    /\ Parsed
    /\ FindByName(schema.complexTypes, "B") > 0
    /\ NameList(schema.complexTypes[FindByName(schema.complexTypes, "B")].content) = <<"z">>
    /\ NameList(Derived.content) = <<"a", "c">>
    /\ NameList(Derived.attributes) = <<"p", "r", "s">>

-----------------------------------------------------------------------------
(* generators/types and generators/validators: the generated text *)

\* base.includes('int') || base.includes('decimal'), base === 'xs:boolean'
ElementTsType(base) ==
    IF Includes(base, "int") \/ Includes(base, "decimal") THEN "number"
    ELSE IF base = "xs:boolean" THEN "boolean"
    ELSE "string"

HasEnumerations(simpleType) == Has(simpleType.restriction, "enumerations")

\* generateSimpleTypes: the line of one simpleType, or none
SimpleTypeLine(simpleType, nam) ==
    IF ~Truthy(simpleType.name) THEN <<>>
    ELSE IF HasEnumerations(simpleType)
    THEN <<"export type " \o getTypeName(simpleType.name, nam) \o " = "
           \o Join(MapSeq(Quoted, simpleType.restriction.enumerations), " | ") \o ";">>
    ELSE IF Truthy(simpleType.restriction.base)
    THEN <<"export type " \o getTypeName(simpleType.name, nam) \o " = "
           \o mapPrimitiveType(simpleType.restriction.base).tsType \o ";">>
    ELSE <<>>

generateSimpleTypes(sch, nam) ==
    Join(Flatten(MapSeq(LAMBDA st : SimpleTypeLine(st, nam), sch.simpleTypes)), "\n")

generateComplexTypes(sch, nam) ==
    Join(MapSeq(LAMBDA ct : "export interface " \o mapComplexType(ct, nam, sch).typeName
                            \o " " \o mapComplexType(ct, nam, sch).tsInterface,
                FilterSeq(LAMBDA ct : Truthy(ct.name), sch.complexTypes)),
         "\n")

\* generateSimpleTypeValidators: the line of one simpleType, or none; for a
\* custom base type the facets are chained onto the base's schema name
SimpleTypeValidatorLine(simpleType, nam, sch) ==
    IF ~Truthy(simpleType.name) THEN <<>>
    ELSE IF HasEnumerations(simpleType)
    THEN <<"export const " \o getSchemaName(simpleType.name, nam) \o " = "
           \o mapEnumeration(simpleType).zodValidator \o ";">>
    ELSE IF Truthy(simpleType.restriction.base)
    THEN <<"export const " \o getSchemaName(simpleType.name, nam) \o " = "
           \o applyFacets(IF FindByName(sch.simpleTypes, simpleType.restriction.base) > 0
                          THEN [tsType |-> "",
                                zodValidator |->
                                    getSchemaName(simpleType.restriction.base, nam)]
                          ELSE mapPrimitiveType(simpleType.restriction.base),
                          simpleType.restriction).zodValidator
           \o ";">>
    ELSE <<>>

generateSimpleTypeValidators(sch, nam, sortedSimple) ==
    Join(Flatten(MapSeq(LAMBDA st : SimpleTypeValidatorLine(st, nam, sch), sortedSimple)), "\n")

generateComplexTypeValidators(sch, nam, sortedComplex) ==
    Join(MapSeq(LAMBDA ct : "export const " \o mapComplexType(ct, nam, sch).schemaName
                            \o " = " \o mapComplexType(ct, nam, sch).zodObject \o ";",
                FilterSeq(LAMBDA ct : Truthy(ct.name), sortedComplex)),
         "\n")

\* processElement of generateElementTypes: what it pushes for an element
ElementTypeLine(element, nam, sch) ==
    IF Has(element, "complexType")
    THEN <<"export interface " \o getTypeName(element.name, nam) \o " "
           \o mapComplexType(element.complexType, nam, sch).tsInterface>>
    ELSE IF Has(element, "simpleType")
    THEN <<"export type " \o getTypeName(element.name, nam) \o " = "
           \o (IF HasEnumerations(element.simpleType)
               THEN Join(MapSeq(Quoted, element.simpleType.restriction.enumerations), " | ")
               ELSE ElementTsType(element.simpleType.restriction.base))
           \o ";">>
    ELSE IF Truthy(element.type)
    THEN <<"export type " \o getTypeName(element.name, nam) \o " = "
           \o (IF findCustomType(element.type, sch).found
               THEN getTypeName(findCustomType(element.type, sch).name, nam)
               ELSE ElementTsType(element.type))
           \o ";">>
    ELSE <<>>

\* processElement of generateElementValidators: what it pushes for an element
ElementValidatorLine(element, nam, sch) ==
    IF Has(element, "complexType")
    THEN <<"export const " \o getSchemaName(element.name, nam) \o " = "
           \o mapComplexType(element.complexType, nam, sch).zodObject \o ";">>
    ELSE IF Has(element, "simpleType")
    THEN (IF HasEnumerations(element.simpleType)
          THEN <<"export const " \o getSchemaName(element.name, nam) \o " = "
                 \o mapEnumeration(element.simpleType).zodValidator \o ";">>
          ELSE IF Truthy(element.simpleType.restriction.base)
          THEN <<"export const " \o getSchemaName(element.name, nam) \o " = "
                 \o applyFacets(mapPrimitiveType(element.simpleType.restriction.base),
                                element.simpleType.restriction).zodValidator
                 \o ";">>
          ELSE <<>>)
    ELSE IF Truthy(element.type)
    THEN (IF findCustomType(element.type, sch).found
          THEN (IF getSchemaName(element.name, nam)
                     # getSchemaName(findCustomType(element.type, sch).name, nam)
                THEN <<"export const " \o getSchemaName(element.name, nam) \o " = "
                       \o getSchemaName(findCustomType(element.type, sch).name, nam) \o ";">>
                ELSE <<>>)
          ELSE <<"export const " \o getSchemaName(element.name, nam) \o " = "
                 \o mapPrimitiveType(element.type).zodValidator \o ";">>)
    ELSE <<>>

RECURSIVE processElement(_, _, _, _, _, _)
\* the calls of processElement on the elements of queue, one after the other,
\* each followed by the calls on the content of its inline complexType;
\* processed is processedElements, lines the array the lines are pushed to
processElement(queue, processed, lines, generator, nam, sch) ==
    IF Len(queue) = 0 THEN lines
    ELSE IF ~Truthy(queue[1].name) \/ queue[1].name \in processed
    THEN processElement(Tail(queue), processed, lines, generator, nam, sch)
    ELSE processElement(
            (IF Has(queue[1], "complexType") THEN queue[1].complexType.content ELSE <<>>)
            \o Tail(queue),
            IF Has(queue[1], "complexType") \/ Has(queue[1], "simpleType")
               \/ Truthy(queue[1].type)
            THEN processed \cup {queue[1].name} ELSE processed,
            lines \o (IF generator = "types" THEN ElementTypeLine(queue[1], nam, sch)
                      ELSE ElementValidatorLine(queue[1], nam, sch)),
            generator, nam, sch)

\* generateElementTypes, generateElementValidators: the elements of the schema,
\* then the content of every complexType
generateElements(sch, nam, generator) ==
    Join(processElement(sch.elements
                        \o Flatten(MapSeq(LAMBDA ct : ct.content, sch.complexTypes)),
                        {}, <<>>, generator, nam, sch),
         "\n")

generateTypes(sch, nam) ==
    "// Generated TypeScript types from XSD schema\n// Do not edit manually\n\n"
    \o generateSimpleTypes(sch, nam) \o "\n\n"
    \o generateComplexTypes(sch, nam) \o "\n\n"
    \o generateElements(sch, nam, "types")

\* the text generateValidators returns once the two sorts have returned
generateValidators(sch, nam, sortedSimple, sortedComplex) ==
    "import { z } from 'zod';\n\n"
    \o "// Generated Zod validators from XSD schema\n// Do not edit manually\n\n"
    \o generateSimpleTypeValidators(sch, nam, sortedSimple) \o "\n\n"
    \o generateComplexTypeValidators(sch, nam, sortedComplex) \o "\n\n"
    \o generateElements(sch, nam, "validators")

-----------------------------------------------------------------------------
(* Generation, repeated, from one parsed schema *)

MaxGenerations == 2

\* <simpleType name="S"> restricted with minLength 1, <simpleType name="T">
\* restricted from S
LengthTypeNode ==
    Node(Named("S"),
         Children("xs", "restriction",
                  <<RestrictionNode("xs", "xs:string", "minLength", <<Num(1)>>, <<>>)>>))
DerivedTypeNode == SimpleTypeNode("xs", "T", "S")

\* <complexType name="A"> with an array field and an optional field of type B
ArrayTypeNode ==
    ComplexTypeWith("xs", "A",
                    <<CompositorNode("xs",
                                     <<[name |-> "f", type |-> "xs:string",
                                        maxOccurs |-> "unbounded"],
                                       [name |-> "g", type |-> "B", minOccurs |-> "0"]>>,
                                     <<>>)>>,
                    <<>>, <<>>, <<>>)
LeafTypeNode ==
    ComplexTypeWith("xs", "B",
                    <<CompositorNode("xs", <<TypedElementNode("h", "T")>>, <<>>)>>,
                    <<>>, <<>>, <<>>)

GeneratedElementNodes ==
    {TypedElementNode("e", "A"),
     InlineElementNode("xs", "k",
                       ComplexTypeWith("xs", Undefined,
                                       <<CompositorNode("xs",
                                                        <<[name |-> "x", type |-> "xs:int",
                                                           maxOccurs |-> "2"]>>,
                                                        <<>>)>>,
                                       <<>>, <<>>, <<>>)),
     [name |-> "c"]
     @@ Children("xs", "simpleType",
                 <<Children("xs", "restriction",
                            <<RestrictionNode("xs", "xs:string", "pattern", <<>>,
                                              <<"a", "b">>)>>)>>)}

GenerationDocuments ==
    {SchemaDocument("xs", elements, complexTypes, simpleTypes, <<>>) :
        elements \in SeqsOf(GeneratedElementNodes, 0, 1),
        complexTypes \in {<<ArrayTypeNode, LeafTypeNode>>, <<LeafTypeNode, ArrayTypeNode>>,
                          <<ArrayTypeNode>>},
        simpleTypes \in {<<LengthTypeNode, DerivedTypeNode>>,
                         <<DerivedTypeNode, LengthTypeNode>>, <<>>}}

\* compileXsd: schema = parseXsd(xsdContent)
ParseSchema ==
    /\ pc = "start"
    /\ \E parsed \in GenerationDocuments, convention \in NamingConventions :
          /\ doc' = parsed
          /\ schema' = parseXsd(parsed)
          /\ naming' = convention
    /\ pc' = "parsed"
    /\ UNCHANGED <<compileVars, calls, visited, visiting, result, stack, loopIdx, warnings,
                   sortedSimpleTypes, sortedComplexTypes>>

\* generateTypes(schema, naming)
GenerateTypes ==
    /\ pc = "parsed"
    /\ Len(calls) < MaxGenerations
    /\ calls' = Append(calls, [kind |-> "types", text |-> generateTypes(schema, naming)])
    /\ UNCHANGED <<compileVars, doc, schema, naming, pc, visited, visiting, result, stack, loopIdx,
                   warnings, sortedSimpleTypes, sortedComplexTypes>>

\* generateValidators(schema, naming) is called: topologicalSortSimpleTypes starts
CallGenerateValidators ==
    /\ pc = "parsed"
    /\ Len(calls) < MaxGenerations
    /\ pc' = "sortSimpleTypes"
    /\ UNCHANGED <<compileVars, doc, schema, naming, calls, visited, visiting, result, stack, loopIdx,
                   warnings, sortedSimpleTypes, sortedComplexTypes>>

\* generateValidators returns its text; its locals are gone
ReturnValidators ==
    /\ pc = "sorted"
    /\ calls' = Append(calls, [kind |-> "validators",
                               text |-> generateValidators(schema, naming, sortedSimpleTypes,
                                                           sortedComplexTypes)])
    /\ pc' = "parsed"
    /\ visited' = {}
    /\ visiting' = {}
    /\ result' = <<>>
    /\ stack' = <<>>
    /\ loopIdx' = 1
    /\ sortedSimpleTypes' = <<>>
    /\ sortedComplexTypes' = <<>>
    /\ UNCHANGED <<compileVars, doc, schema, naming, warnings>>

NextGenerate ==
    \/ ParseSchema
    \/ GenerateTypes
    \/ CallGenerateValidators
    \/ MechanicalSortStep
    \/ ComplexVisitEnter
    \/ ReturnValidators

SpecGenerate == Init /\ [][NextGenerate]_vars

-----------------------------------------------------------------------------
(* The namespace bindings of the root and the prefix parseXsd works with *)

MaxBindings == 3

NamespaceKeys == {"xmlns", "xmlns:xs", "xmlns:xsd", "xmlns:skatt"}

NamespaceUris == {XSD_NAMESPACE_URI, "http://www.skatteetaten.no/xsd"}

\* the xmlns attributes of a root, in the order the document writes them
NamespaceBindings ==
    {bindings \in SeqsOf([key : NamespaceKeys, uri : NamespaceUris], 0, MaxBindings) :
        \A i \in DOMAIN bindings, j \in DOMAIN bindings :
            bindings[i].key = bindings[j].key => i = j}

\* <p:schema xmlns..=".." ..><p:element name="Test" type="string"/></p:schema>
BoundDocument(prefix, bindings) ==
    Let([i \in DOMAIN bindings |-> bindings[i].key], LAMBDA keys :
    Let([key \in RangeOf(keys) |->
            (CHOOSE binding \in RangeOf(bindings) : binding.key = key).uri]
        @@ ("#keys" :> keys)
        @@ Children(prefix, "element", <<TypedElementNode("Test", "string")>>),
        LAMBDA root :
            ("#keys" :> <<"?xml", Tag(prefix, "schema")>>)
            @@ ("?xml" :> [version |-> "1.0", encoding |-> "UTF-8"])
            @@ (Tag(prefix, "schema") :> root)))

\* parseXsd: findSchemaElement, extractNamespaces, then the parse with xsdPrefix
ParseBound ==
    /\ pc = "start"
    /\ \E prefix \in Prefixes, bindings \in NamespaceBindings :
          Let(BoundDocument(prefix, bindings), LAMBDA parsed :
              /\ doc' = parsed
              /\ schema' = parseXsd(parsed)
              /\ calls' = <<[prefix |-> prefix, bindings |-> bindings,
                             xsdPrefix |-> extractNamespaces(findSchemaElement(parsed))]>>)
    /\ pc' = "bound"
    /\ UNCHANGED <<compileVars, naming, visited, visiting, result, stack, loopIdx, warnings,
                   sortedSimpleTypes, sortedComplexTypes>>

NextNamespace == ParseBound

SpecNamespace == Init /\ [][NextNamespace]_vars

\* the prefixes p the root binds to the XML Schema namespace with xmlns:p
XsdPrefixesOf(bindings) ==
    {XmlnsPrefix(binding.key) :
        binding \in {b \in RangeOf(bindings) :
                        b.key # "xmlns" /\ b.uri = XSD_NAMESPACE_URI}}

-----------------------------------------------------------------------------
(* minOccurs and maxOccurs of element nodes *)

MaxOccursValue == 12

\* what an element node writes for minOccurs or maxOccurs
AbsentOccurs == [written |-> "absent"]
UnboundedLiteral == [written |-> "unbounded"]
IntegerLiterals == {[written |-> "integer", value |-> n] : n \in 0..MaxOccursValue}

MinOccursWritten == {AbsentOccurs} \cup IntegerLiterals
MaxOccursWritten == {AbsentOccurs, UnboundedLiteral} \cup IntegerLiterals

ElementPlacements == {"schema", "sequence", "choice", "all"}

OccursAttribute(key, occurs) ==
    IF occurs = AbsentOccurs THEN <<>>
    ELSE IF occurs = UnboundedLiteral THEN key :> "unbounded"
    ELSE key :> NatToString(occurs.value)

\* <element name="item" type="xs:string" minOccurs=".." maxOccurs=".."/>
OccursElementNode(minOccurs, maxOccurs) ==
    TypedElementNode("item", "xs:string")
    @@ OccursAttribute("minOccurs", minOccurs)
    @@ OccursAttribute("maxOccurs", maxOccurs)

\* the element directly under the schema, or in a compositor of complexType A
OccursDocument(placement, element) ==
    Let(<<CompositorNode("xs", <<element>>, <<>>)>>, LAMBDA compositor :
        IF placement = "schema" THEN SchemaDocument("xs", <<element>>, <<>>, <<>>, <<>>)
        ELSE SchemaDocument(
                 "xs", <<>>,
                 <<ComplexTypeWith("xs", "A",
                                   IF placement = "sequence" THEN compositor ELSE <<>>,
                                   IF placement = "choice" THEN compositor ELSE <<>>,
                                   IF placement = "all" THEN compositor ELSE <<>>,
                                   <<>>)>>,
                 <<>>, <<>>))

\* parseXsd on a document with one element node
ParseOccurs ==
    /\ pc = "start"
    /\ \E placement \in ElementPlacements, minOccurs \in MinOccursWritten,
          maxOccurs \in MaxOccursWritten :
          /\ doc' = OccursDocument(placement, OccursElementNode(minOccurs, maxOccurs))
          /\ schema' = parseXsd(OccursDocument(placement,
                                               OccursElementNode(minOccurs, maxOccurs)))
          /\ calls' = <<[placement |-> placement, minOccurs |-> minOccurs,
                         maxOccurs |-> maxOccurs]>>
    /\ pc' = "occurs"
    /\ UNCHANGED <<compileVars, naming, visited, visiting, result, stack, loopIdx, warnings,
                   sortedSimpleTypes, sortedComplexTypes>>

NextOccurs == ParseOccurs

SpecOccurs == Init /\ [][NextOccurs]_vars

\* the XsdElement parseElement returned for the element node
ParsedOccursElement ==
    IF calls[1].placement = "schema" THEN schema.elements[1]
    ELSE schema.complexTypes[1][calls[1].placement][1]

\* the recorded value is what the node wrote
RecordsOccurs(recorded, occurs) ==
    IF occurs = AbsentOccurs THEN recorded.k = "undefined"
    ELSE IF occurs = UnboundedLiteral THEN recorded.k = "unbounded"
    ELSE /\ recorded.k = "number"
         /\ ~recorded.neg
         /\ recorded.int = occurs.value
         /\ recorded.frac = ""

\* C22: parseElement records maxOccurs="unbounded" as the string sentinel and
\* not as a number, every other written minOccurs or maxOccurs as its integer
\* value, and a minOccurs or maxOccurs the node leaves out as undefined
C22_OccursRecorded ==
    pc = "occurs" =>
        /\ RecordsOccurs(ParsedOccursElement.minOccurs, calls[1].minOccurs)
        /\ RecordsOccurs(ParsedOccursElement.maxOccurs, calls[1].maxOccurs)

\* minOccurs="0" with maxOccurs="unbounded" in a sequence, and an element
\* that writes neither
C22_Witness ==
    /\ pc = "occurs"
    /\ calls[1].placement = "sequence"
    /\ calls[1].minOccurs = [written |-> "integer", value |-> 0]
    /\ calls[1].maxOccurs = UnboundedLiteral
    /\ ParsedOccursElement.minOccurs = Num(0)
    /\ ParsedOccursElement.maxOccurs = UnboundedOccurs

-----------------------------------------------------------------------------
(* compileXsd: the options, the scan of the input path, and the files it    *)
(* writes                                                                   *)

\* path.join, path.basename(path, ext), path.extname
join(dir, name) == dir \o "/" \o name

LastIndexOf(s, c) ==
    LET hits == {i \in 1..Len(s) : Ch(s, i) = c}
    IN  IF hits = {} THEN 0 ELSE CHOOSE i \in hits : \A j \in hits : j <= i

basename(path, ext) ==
    Let(SubSeq(path, LastIndexOf(path, "/") + 1, Len(path)), LAMBDA base :
        IF ext # "" /\ base # ext /\ EndsWith(base, ext)
        THEN SubSeq(base, 1, Len(base) - Len(ext))
        ELSE base)

extname(path) ==
    Let(basename(path, ""), LAMBDA base :
    Let(LastIndexOf(base, "."), LAMBDA dot :
        IF dot <= 1 THEN "" ELSE SubSeq(base, dot, Len(base))))

\* what a path of the file system holds
NoEntry == [kind |-> "none"]
File(content) == [kind |-> "file", content |-> content]
Dir(entries) == [kind |-> "dir", entries |-> entries]

\* the text of a file nobody may read
Unreadable == [unreadable |-> TRUE]

InputRoot == "in"
OutputRoot == "out"

\* statSync(path) for the input path and the paths directly under it
statSync(fs, path) ==
    IF path = InputRoot THEN fs.tree
    ELSE Let(FilterSeq(LAMBDA entry : join(InputRoot, entry.name) = path, fs.tree.entries),
             LAMBDA found : IF Len(found) = 0 THEN NoEntry ELSE found[1].node)

RECURSIVE scanPath(_, _)
RECURSIVE ScanEntries(_, _, _)
\* getXsdFiles: scanPath(path), with what statSync(path) returned
scanPath(path, stats) ==
    IF stats.kind = "file"
    THEN IF ToLower(extname(path)) = ".xsd" THEN <<path>> ELSE <<>>
    ELSE IF stats.kind = "dir" THEN ScanEntries(path, stats.entries, 1)
    ELSE <<>>

\* for (const entry of readdirSync(path)) await scanPath(join(path, entry))
ScanEntries(path, entries, i) ==
    IF i > Len(entries) THEN <<>>
    ELSE scanPath(join(path, entries[i].name), entries[i].node)
         \o ScanEntries(path, entries, i + 1)

getXsdFiles(fs, inputPath) == scanPath(inputPath, statSync(fs, inputPath))

RECURSIVE FilesUnder(_, _)
\* every file under a path, with its content
FilesUnder(path, node) ==
    IF node.kind = "file" THEN <<[path |-> path, content |-> node.content]>>
    ELSE IF node.kind = "dir"
    THEN Flatten([i \in DOMAIN node.entries |->
                     FilesUnder(join(path, node.entries[i].name), node.entries[i].node)])
    ELSE <<>>

\* readFileSync(path, "utf-8") of a file getXsdFiles returned
readFileContent(fs, path) ==
    FilterSeq(LAMBDA file : file.path = path, FilesUnder(InputRoot, fs.tree))[1].content

\* a validation that looks at the output path first
validateOutputFirst(opts) ==
    IF ~Truthy(opts.output) THEN "Output path is required"
    ELSE IF ~Truthy(opts.input) THEN "Input path is required"
    ELSE IF opts.naming \notin NamingConventions
    THEN "Invalid naming convention: " \o opts.naming
    ELSE Undefined

\* the message validateOptions throws with, Undefined when it returns
validateOptions(opts) ==
    IF ~Truthy(opts.input) THEN "Input path is required"
    ELSE IF ~Truthy(opts.output) THEN "Output path is required"
    ELSE IF opts.naming \notin NamingConventions
    THEN "Invalid naming convention: " \o opts.naming
    ELSE Undefined

\* existsSync(outputPath)
existsSync(fs) == fs.out.exists

\* ensureDir(outputPath): mkdir unless the directory exists
ensureDir(fs) == IF existsSync(fs) THEN fs ELSE [fs EXCEPT !.out.exists = TRUE]

\* writeFile(join(outputPath, name), content)
writeFile(fs, name, content) ==
    [fs EXCEPT !.out.files = (name :> content) @@ fs.out.files]

\* a loop body that writes the two files whatever options.separate is
OutputsIgnoringSeparate(file, sch, nam, separate) ==
    <<[name |-> basename(file, extname(file)) \o ".types.ts",
       content |-> generateTypes(sch, nam)],
      [name |-> basename(file, extname(file)) \o ".validators.ts",
       content |-> generateValidators(sch, nam, <<>>, <<>>)]>>

\* the writeFile calls of one file, in the order compileXsd awaits them; the
\* sorts of a schema without named types return empty lists
OutputsOf(file, sch, nam, separate) ==
    Let(basename(file, extname(file)), LAMBDA baseName :
    Let(generateTypes(sch, nam), LAMBDA typesCode :
    Let(generateValidators(sch, nam, <<>>, <<>>), LAMBDA validatorsCode :
        IF separate
        THEN <<[name |-> baseName \o ".types.ts", content |-> typesCode],
               [name |-> baseName \o ".validators.ts", content |-> validatorsCode]>>
        ELSE <<[name |-> baseName \o ".ts",
                content |-> typesCode \o "\n\n" \o validatorsCode]>>)))

-----------------------------------------------------------------------------
(* The input trees and the options of the compileXsd runs *)

MaxEntries == 2

\* <xs:schema><xs:element name="a" type="xs:string"/></xs:schema> and the like
StringDocument == SchemaDocument("xs", <<TypedElementNode("a", "xs:string")>>, <<>>, <<>>, <<>>)
IntDocument == SchemaDocument("xs", <<TypedElementNode("b", "xs:int")>>, <<>>, <<>>, <<>>)

\* a schema whose documentation holds text: parseXsd throws
RaisingDocument ==
    RootedAt("xs:schema", AnomalousSchema("absent", "absent", "absent", "text", "absent"))

FileContents == {StringDocument, IntDocument, RaisingDocument, Unreadable}

FileNames == {"a.xsd", "b.XSD", "notes.txt"}

\* the files directly in a directory, in the order readdirSync lists them
FileEntries(names, maxLen) ==
    {entries \in SeqsOf(UNION {{[name |-> name, node |-> File(content)] :
                                   content \in (IF name = "notes.txt" THEN {StringDocument}
                                                ELSE FileContents)} : name \in names},
                        0, maxLen) :
        \A i \in DOMAIN entries, j \in DOMAIN entries :
            entries[i].name = entries[j].name => i = j}

\* the subdirectory sub: absent, empty, or with its own a.xsd
SubDirectories ==
    {<<>>} \cup {<<[name |-> "sub", node |-> Dir(entries)]>> :
                    entries \in FileEntries({"a.xsd"}, 1)}

\* readdirSync lists the subdirectory before or after the files
InputTrees ==
    UNION {{Dir(files \o sub), Dir(sub \o files)} :
              files \in FileEntries(FileNames, MaxEntries), sub \in SubDirectories}

FileSystems ==
    {[tree |-> tree, out |-> [exists |-> exists, files |-> <<>>]] :
        tree \in InputTrees, exists \in BOOLEAN}

CompileOptions ==
    [input : {Undefined, InputRoot, join(InputRoot, "a.xsd"), "missing"},
     output : {Undefined, OutputRoot},
     naming : {"camel", "snake"},
     separate : BOOLEAN]

-----------------------------------------------------------------------------
(* compileXsd, one await after the other *)

Reject(message) ==
    /\ pc' = "rejected"
    /\ error' = message

\* compileXsd up to its loop: validateOptions, getXsdFiles, the throw on an
\* empty list, ensureDir
StartCompile ==
    /\ pc = "start"
    /\ \E opts \in CompileOptions, fs \in FileSystems :
          /\ options' = opts
          /\ IF validateOptions(opts) # Undefined
             THEN Reject(validateOptions(opts)) /\ disk' = fs /\ UNCHANGED <<xsdFiles, calls>>
             ELSE IF statSync(fs, opts.input) = NoEntry
             THEN Reject("ENOENT: no such file or directory") /\ disk' = fs
                  /\ UNCHANGED <<xsdFiles, calls>>
             ELSE IF Len(getXsdFiles(fs, opts.input)) = 0
             THEN Reject("No XSD files found in " \o opts.input) /\ disk' = fs
                  /\ UNCHANGED <<xsdFiles, calls>>
             ELSE /\ xsdFiles' = getXsdFiles(fs, opts.input)
                  /\ disk' = ensureDir(fs)
                  /\ calls' = IF existsSync(fs) THEN <<>>
                              ELSE <<[op |-> "mkdir", path |-> opts.output]>>
                  /\ pc' = "file"
                  /\ error' = Undefined
    /\ UNCHANGED <<fileIdx, pending, doc, schema, naming, visited, visiting, result,
                   stack, loopIdx, warnings, sortedSimpleTypes, sortedComplexTypes>>

\* one turn of the loop up to its first writeFile: readFileContent, parseXsd,
\* generateTypes, generateValidators
ProcessFile ==
    /\ pc = "file"
    /\ Let(xsdFiles[fileIdx], LAMBDA file :
       Let(readFileContent(disk, file), LAMBDA xsdContent :
           /\ calls' = Append(calls, [op |-> "read", file |-> file])
           /\ IF xsdContent = Unreadable
              THEN Reject("EACCES: permission denied")
                   /\ UNCHANGED <<doc, schema, naming, pending>>
              ELSE IF parseXsdRaises(xsdContent)
              THEN Reject("TypeError") /\ doc' = xsdContent
                   /\ UNCHANGED <<schema, naming, pending>>
              ELSE /\ doc' = xsdContent
                   /\ schema' = parseXsd(xsdContent)
                   /\ naming' = options.naming
                   /\ pending' = OutputsOf(file, parseXsd(xsdContent), options.naming,
                                           options.separate)
                   /\ pc' = "write"
                   /\ UNCHANGED error))
    /\ UNCHANGED <<options, disk, xsdFiles, fileIdx, visited, visiting, result, stack, loopIdx,
                   warnings, sortedSimpleTypes, sortedComplexTypes>>

\* await writeFile(..): the file is written or the promise is rejected; after
\* the last writeFile of a file the loop goes on or compileXsd returns
WriteOutput ==
    /\ pc = "write"
    /\ \E written \in BOOLEAN :
          IF ~written
          THEN Reject("EIO: i/o error, write") /\ UNCHANGED <<disk, calls, fileIdx, pending>>
          ELSE /\ disk' = writeFile(disk, pending[1].name, pending[1].content)
               /\ calls' = Append(calls, [op |-> "write", file |-> xsdFiles[fileIdx],
                                          name |-> pending[1].name,
                                          content |-> pending[1].content])
               /\ pending' = Tail(pending)
               /\ fileIdx' = IF Len(pending) = 1 THEN fileIdx + 1 ELSE fileIdx
               /\ pc' = IF Len(pending) > 1 THEN "write"
                        ELSE IF fileIdx = Len(xsdFiles) THEN "done" ELSE "file"
               /\ UNCHANGED error
    /\ UNCHANGED <<options, xsdFiles, doc, schema, naming, visited, visiting, result, stack,
                   loopIdx, warnings, sortedSimpleTypes, sortedComplexTypes>>

NextCompile == StartCompile \/ ProcessFile \/ WriteOutput

SpecCompile == Init /\ [][NextCompile]_vars

\* the base name of each input file of the trees
BaseNameOf(file) ==
    CASE file = "in/a.xsd" -> "a"
      [] file = "in/b.XSD" -> "b"
      [] file = "in/sub/a.xsd" -> "a"

\* the names of the files written for an input file, in the order of the writes
WrittenFor(file) ==
    MapSeq(LAMBDA call : call.name,
           FilterSeq(LAMBDA call : call.op = "write" /\ call.file = file, calls))

\* the file compileXsd has just finished with
LastCompiled == xsdFiles[fileIdx - 1]

FileCompiled == pc \in {"file", "done"} /\ fileIdx > 1

\* C23: for an input file with base name B, compileXsd with separate = true
\* writes B.types.ts and B.validators.ts and nothing else, and with separate =
\* false it writes B.ts, the types text followed by the validators text, and
\* nothing else
C23_OutputFiles ==
    FileCompiled =>
        LET B == BaseNameOf(LastCompiled)
            typesCode == generateTypes(schema, naming)
            validatorsCode == generateValidators(schema, naming, <<>>, <<>>)
        IN  IF options.separate
            THEN /\ WrittenFor(LastCompiled) = <<B \o ".types.ts", B \o ".validators.ts">>
                 /\ disk.out.files[B \o ".types.ts"] = typesCode
                 /\ disk.out.files[B \o ".validators.ts"] = validatorsCode
            ELSE /\ WrittenFor(LastCompiled) = <<B \o ".ts">>
                 /\ disk.out.files[B \o ".ts"] = typesCode \o "\n\n" \o validatorsCode

\* in/b.XSD compiled on its own into one combined file
C23_Witness ==
    /\ pc = "done"
    /\ ~options.separate
    /\ xsdFiles = <<"in/b.XSD">>
    /\ DOMAIN disk.out.files = {"b.ts"}
    /\ Includes(disk.out.files["b.ts"], "import { z } from 'zod';")

\* no file under the input path has a .xsd extension, whatever its case
NoXsdFileUnder(path) ==
    \A file \in RangeOf(FilesUnder(InputRoot, disk.tree)) :
        StartsWith(file.path, path) => ~EndsWith(ToLower(file.path), ".xsd")

\* nothing was created and nothing was written
NoOutput ==
    /\ calls = <<>>
    /\ disk.out.files = <<>>

\* C24: compileXsd rejects with no output directory created and no file
\* written when the input is missing, else when the output is missing, else
\* when the naming convention is none of camel, pascal, original and kebab,
\* and else when no file under the input path has a .xsd extension
C24_RejectsBeforeOutput ==
    pc # "start" =>
        IF ~Truthy(options.input)
        THEN pc = "rejected" /\ error = "Input path is required" /\ NoOutput
        ELSE IF ~Truthy(options.output)
        THEN pc = "rejected" /\ error = "Output path is required" /\ NoOutput
        ELSE IF options.naming \notin {"camel", "pascal", "original", "kebab"}
        THEN pc = "rejected" /\ StartsWith(error, "Invalid naming convention") /\ NoOutput
        ELSE NoXsdFileUnder(options.input) => pc = "rejected" /\ NoOutput

\* a tree with only notes.txt and an output directory that does not exist
C24_Witness ==
    /\ pc = "rejected"
    /\ options.input = InputRoot
    /\ options.naming = "camel"
    /\ disk.tree = Dir(<<[name |-> "notes.txt", node |-> File(StringDocument)]>>)
    /\ ~disk.out.exists
    /\ error = "No XSD files found in in"

\* the positions in calls of the reads and writes of the i-th file
CallsOf(i) == {c \in DOMAIN calls : calls[c].op # "mkdir" /\ calls[c].file = xsdFiles[i]}

\* compileXsd was rejected while it worked on the file at fileIdx
FileFailed == pc = "rejected" /\ xsdFiles # <<>>

\* what an input file wrote is still what the output directory holds
RemainsWritten(i) ==
    /\ \E c \in CallsOf(i) : calls[c].op = "write"
    /\ \A c \in CallsOf(i) :
          calls[c].op = "write" =>
              /\ calls[c].name \in DOMAIN disk.out.files
              /\ disk.out.files[calls[c].name] = calls[c].content

\* C25: the files are handled one after the other in discovery order, each
\* completely written before the next one is read; when file k fails, what
\* the files 1..k-1 wrote is still written and nothing was written for the
\* files from k on
C25_SequentialBatch ==
    /\ \A i \in DOMAIN xsdFiles, j \in DOMAIN xsdFiles :
          i < j => \A c \in CallsOf(i), d \in CallsOf(j) : c < d
    /\ FileFailed =>
          /\ \A i \in 1..(fileIdx - 1) : RemainsWritten(i)
          /\ \A i \in fileIdx..Len(xsdFiles) :
                \A c \in CallsOf(i) : calls[c].op # "write"

\* the names of the files written for the i-th input file
OutputNamesOf(i) == {calls[c].name : c \in {d \in CallsOf(i) : calls[d].op = "write"}}

\* C30: after a run that succeeded, no two input files have written a file of
\* the same name, and the output directory holds what each input file wrote,
\* also for input files with one base name in different directories
C30_DistinctOutputs ==
    pc = "done" =>
        /\ \A i \in DOMAIN xsdFiles, j \in DOMAIN xsdFiles :
              i # j => OutputNamesOf(i) \cap OutputNamesOf(j) = {}
        /\ \A i \in DOMAIN xsdFiles : RemainsWritten(i)

-----------------------------------------------------------------------------
(* applyFacets on restrictions with length and bound facets *)

MaxFacetValue == 2

\* a facet left out, or written with a non-negative integer
FacetValues == {NoNum} \cup {Num(n) : n \in 0..MaxFacetValue}

FacetRestrictions ==
    {[base |-> "string", minLength |-> minLength, maxLength |-> maxLength,
      length |-> length, totalDigits |-> NoNum, fractionDigits |-> NoNum,
      minInclusive |-> minInclusive, maxInclusive |-> NoNum, minExclusive |-> NoNum,
      maxExclusive |-> maxExclusive, pattern |-> Undefined, whiteSpace |-> Undefined] :
        minLength \in FacetValues, maxLength \in FacetValues, length \in FacetValues,
        minInclusive \in FacetValues, maxExclusive \in FacetValues}

\* applyFacets(mapPrimitiveType(base), restriction, naming), as
\* generateSimpleTypeValidators calls it
ApplyFacets ==
    /\ pc = "start"
    /\ \E restriction \in FacetRestrictions :
          calls' = <<[input |-> restriction,
                      output |-> applyFacets(mapPrimitiveType(restriction.base),
                                             restriction)]>>
    /\ pc' = "applied"
    /\ UNCHANGED <<compileVars, doc, schema, naming, visited, visiting, result, stack, loopIdx,
                   warnings, sortedSimpleTypes, sortedComplexTypes>>

NextFacets == ApplyFacets

SpecFacets == Init /\ [][NextFacets]_vars

\* the validator with .method(n) appended when the facet is present
Appended(zodValidator, facet, method) ==
    IF facet = NoNum THEN zodValidator
    ELSE zodValidator \o "." \o method \o "(" \o NatToString(facet.int) \o ")"

\* C26: applyFacets appends .min(n), .max(n) and .length(n) for a minLength,
\* maxLength and length of n whenever the facet is present, n = 0 included,
\* as it appends .min(n) and .lt(n) for minInclusive and maxExclusive
C26_LengthFacetsAppended ==
    pc = "applied" =>
        calls[1].output.zodValidator
          = Appended(Appended(Appended(Appended(Appended("z.string()",
                calls[1].input.minLength, "min"),
                calls[1].input.maxLength, "max"),
                calls[1].input.length, "length"),
                calls[1].input.minInclusive, "min"),
                calls[1].input.maxExclusive, "lt")

-----------------------------------------------------------------------------
(* The sorts on schemas that declare a name more than once *)

\* the sorted list has as many entries of each name as the list
SameNameCounts(list, sorted) ==
    \A n \in NamesOf(list) :
        Cardinality(PositionsOf(sorted, n)) = Cardinality(PositionsOf(list, n))

\* C27: the lists the two sorts return hold as many entries of each name as
\* schema.simpleTypes and schema.complexTypes do, also when two types of a
\* list carry one name
C27_NoNamedTypeDropped ==
    pc = "sorted" =>
        /\ SameNameCounts(schema.simpleTypes, sortedSimpleTypes)
        /\ SameNameCounts(schema.complexTypes, sortedComplexTypes)

-----------------------------------------------------------------------------
(* The identifiers a generated validators text exports and refers to *)

MaxExportTypes == 2

\* <simpleType name="L"><list itemType="xs:string"/></simpleType>: a named
\* simpleType without a restriction
ListTypeNode == [name |-> "L"] @@ Children("xs", "list", <<[itemType |-> "xs:string"]>>)

ExportSimpleTypeNodes ==
    {SimpleTypeNode("xs", "A", "xs:string"), SimpleTypeNode("xs", "S", "A"), ListTypeNode}

\* <complexType name="A"> with a field of the type and an attribute of the type
ReferringTypeNode(type) ==
    ComplexTypeNode("xs", "A", <<TypedElementNode("f", type)>>, Undefined)
    @@ Children("xs", "attribute", <<[name |-> "id", type |-> type]>>)

ExportComplexTypeNodes ==
    {<<>>,
     <<ReferringTypeNode("xs:string")>>,
     <<ReferringTypeNode("S")>>,
     <<ReferringTypeNode("L")>>,
     <<ReferringTypeNode("B"), ComplexTypeNode("xs", "B", <<>>, Undefined)>>}

ExportElementNodes ==
    {<<>>,
     <<TypedElementNode("a", "xs:string")>>,
     <<TypedElementNode("e", "S")>>,
     <<InlineElementNode("xs", "a",
                         ComplexTypeWith("xs", Undefined,
                                         <<CompositorNode("xs", <<TypedElementNode("g", "L")>>,
                                                          <<>>)>>,
                                         <<>>, <<>>, <<>>))>>}

ExportDocuments ==
    {SchemaDocument("xs", elements, complexTypes, simpleTypes, <<>>) :
        elements \in ExportElementNodes,
        complexTypes \in ExportComplexTypeNodes,
        simpleTypes \in SeqsOf(ExportSimpleTypeNodes, 0, MaxExportTypes)}

ExportNamings == {"camel", "original"}

\* compileXsd: schema = parseXsd(xsdContent), on a schema whose declarations
\* share names and refer to each other
ParseDeclarations ==
    /\ pc = "start"
    /\ \E parsed \in ExportDocuments, convention \in ExportNamings :
          /\ doc' = parsed
          /\ schema' = parseXsd(parsed)
          /\ naming' = convention
    /\ calls' = <<[kind |-> "parse", text |-> ""]>>
    /\ pc' = "parsed"
    /\ UNCHANGED <<compileVars, visited, visiting, result, stack, loopIdx, warnings,
                   sortedSimpleTypes, sortedComplexTypes>>

NextExports ==
    \/ ParseDeclarations
    \/ CallGenerateValidators
    \/ MechanicalSortStep
    \/ ComplexVisitEnter
    \/ ReturnValidators

SpecExports == Init /\ [][NextExports]_vars

RECURSIVE Lines(_)
\* text.split("\n")
Lines(text) ==
    Let(IndexOf(text, "\n"), LAMBDA at :
        IF at = 0 THEN <<text>>
        ELSE <<SubSeq(text, 1, at - 1)>> \o Lines(SubSeq(text, at + 1, Len(text))))

\* the identifiers of the lines `export const <identifier> = ..`, in text order
ExportedNames(text) ==
    MapSeq(LAMBDA line : SubSeq(line, Len("export const ") + 1, IndexOf(line, " = ") - 1),
           FilterSeq(LAMBDA line : StartsWith(line, "export const "), Lines(text)))

RECURSIVE SchemaIdentifiers(_, _)
\* the identifiers ending in Schema that a line holds from position i on
SchemaIdentifiers(line, i) ==
    IF i > Len(line) THEN {}
    ELSE IF Ch(line, i) \notin AlnumChars THEN SchemaIdentifiers(line, i + 1)
    ELSE Let(AlnumRunEnd(line, i), LAMBDA r :
             (IF EndsWith(SubSeq(line, i, r), "Schema") THEN {SubSeq(line, i, r)} ELSE {})
             \cup SchemaIdentifiers(line, r + 1))

\* the schema identifiers in the fields `  <name>: <validator>` of the
\* z.object({..}) of a text
FieldReferences(text) ==
    UNION {SchemaIdentifiers(line, IndexOf(line, ": ") + 1) :
              line \in {l \in RangeOf(Lines(text)) : StartsWith(l, "  ")}}

\* the text the last call of generateValidators returned
ValidatorsReturned == pc = "parsed" /\ calls[Len(calls)].kind = "validators"
ValidatorsText == calls[Len(calls)].text

\* C28: the text generateValidators returns exports no identifier twice, also
\* when a simpleType, a complexType and an element get the same schema name
C28_ExportsDistinct ==
    ValidatorsReturned =>
        \A i \in DOMAIN ExportedNames(ValidatorsText),
           j \in DOMAIN ExportedNames(ValidatorsText) :
            ExportedNames(ValidatorsText)[i] = ExportedNames(ValidatorsText)[j] => i = j

\* C29: every schema identifier in a field of a z.object of the text
\* generateValidators returns is exported by the same text
C29_ReferencesDeclared ==
    ValidatorsReturned =>
        FieldReferences(ValidatorsText) \subseteq RangeOf(ExportedNames(ValidatorsText))

====
